---- MODULE Spec2Model ----
(***************************************************************************)
(* Durak card game engine of the Discord bot (src/commands.py,             *)
(* src/models.py, src/config.py, src/utils/helpers.py).                    *)
(*                                                                         *)
(* One guild's Server object is modelled.  A Python str is a sequence of   *)
(* Unicode code points, a Card is a record of two such strings, a list is  *)
(* a sequence, and a Player object is identified by its author and by the  *)
(* number of /durak resets that preceded its creation (the players dict is *)
(* replaced by a fresh one on every reset, so objects of an earlier reset  *)
(* compare unequal to every current object).                               *)
(***************************************************************************)
EXTENDS Integers, Sequences, FiniteSets, TLC

VARIABLES
    state,              \* Server.state
    players,            \* Server.players: author -> Player, insertion = number order
    deck,               \* Server.deck
    trump_card,         \* Server.trump_card
    trump_taken,        \* Server.trump_taken
    table,              \* Server.table: list of (attack card, defence card or None)
    attacker,           \* Server.attacker: Player reference or None
    defender,           \* Server.defender: Player reference or None
    finished_players,   \* Server.finished_players
    epoch,              \* number of /durak resets so far (Player object identity)
    turns,              \* number of end_turn calls so far
    moves,              \* number of /play, /defend, /take, /giveup that assigned something
    ev,                 \* the last command handled and how it ended
    last_turn,          \* what the last completed end_turn saw and reported
    call,               \* a call of one function and its result (SpecRules, SpecRefill)
    pending             \* the handlers suspended at an await (SpecAsync only)

vars == <<state, players, deck, trump_card, trump_taken, table, attacker, defender,
          finished_players, epoch, turns, moves, ev, last_turn, call, pending>>

game_vars == <<state, players, deck, trump_card, trump_taken, table, attacker,
               defender, finished_players, epoch, turns, moves, ev, last_turn,
               pending>>

\* Python's None, as a player reference, as a card and as a rank string
NoPlayer == [author |-> 0, epoch |-> 0]
NoCard == [rank |-> <<>>, suit |-> <<>>]
NoRank == <<>>

----------------------------------------------------------------------------
(* Bounds of the model.                                                    *)

\* authors (guild members) that send commands
NumAuthors == 3
\* longest card list given to /play or /defend
MaxTokens == 2
\* /durak resets explored
MaxSetups == 1
\* end_turn calls explored
MaxTurns == 1
\* table-changing moves of a session that may be reset
MaxMoves == 2
\* table-changing moves of a session of interleaved handlers, after which no
\* further command is taken up
MaxAsyncMoves == 3

Authors == 1..NumAuthors

----------------------------------------------------------------------------
(* Strings.                                                                *)

\* Python's < on str: lexicographic by code point, a proper prefix is smaller
RECURSIVE StrLess(_, _)
StrLess(a, b) ==
    IF b = <<>> THEN FALSE
    ELSE IF a = <<>> THEN TRUE
    ELSE IF Head(a) # Head(b) THEN Head(a) < Head(b)
    ELSE StrLess(Tail(a), Tail(b))

\* str(number) for the numbers create_deck formats (one decimal digit each)
IntStr(n) == IF n < 10 THEN <<48 + n>> ELSE <<48 + (n \div 10), 48 + (n % 10)>>

----------------------------------------------------------------------------
(* Cards: src/config.py and class Card.                                    *)

\* '6','7','8','9','10','J','Q','K','A' -> 0..8
CARD_RANKS ==
    (<<54>> :> 0) @@ (<<55>> :> 1) @@ (<<56>> :> 2) @@ (<<57>> :> 3) @@
    (<<49, 48>> :> 4) @@ (<<74>> :> 5) @@ (<<81>> :> 6) @@ (<<75>> :> 7) @@
    (<<65>> :> 8)

\* hearts, diamonds, clubs, spades, each followed by U+FE0F
CARD_SUITS == << <<9829, 65039>>, <<9830, 65039>>, <<9827, 65039>>, <<9824, 65039>> >>

Card(rank, suit) == [rank |-> rank, suit |-> suit]

\* Card.__str__
CardStr(card) == card.rank \o card.suit

\* Card.from_string raises ValueError
from_string_fails(card_str) == Len(card_str) < 3

\* Card.from_string on a string it accepts
from_string(card_str) ==
    Card(SubSeq(card_str, 1, Len(card_str) - 2),
         SubSeq(card_str, Len(card_str) - 1, Len(card_str)))

\* the label create_deck gives to a number
DeckLabel(number) ==
    IF number = 10 THEN <<74>>
    ELSE IF number = 11 THEN <<81>>
    ELSE IF number = 12 THEN <<75>>
    ELSE IF number = 13 THEN <<65>>
    ELSE IntStr(number)

\* Card.create_deck: for number in range(6, 14): for suit in CARD_SUITS
create_deck ==
    [k \in 1..((14 - 6) * Len(CARD_SUITS)) |->
        Card(DeckLabel(6 + ((k - 1) \div Len(CARD_SUITS))),
             CARD_SUITS[((k - 1) % Len(CARD_SUITS)) + 1])]

----------------------------------------------------------------------------
(* Rules engine.                                                           *)

\* is_defence_success comparing the rank strings themselves, as start_game does
is_defence_success_by_label(trump, attacking_card, defending_card) ==
    IF attacking_card.suit = trump.suit /\ defending_card.suit # trump.suit THEN FALSE
    ELSE IF attacking_card.suit # trump.suit /\ defending_card.suit = trump.suit THEN TRUE
    ELSE IF defending_card.suit = attacking_card.suit
         THEN StrLess(attacking_card.rank, defending_card.rank)
    ELSE FALSE

\* is_defence_success with the rule of some tables that a six beats an ace
is_defence_success_six_beats_ace(trump, attacking_card, defending_card) ==
    IF attacking_card.suit = trump.suit /\ defending_card.suit # trump.suit THEN FALSE
    ELSE IF attacking_card.suit # trump.suit /\ defending_card.suit = trump.suit THEN TRUE
    ELSE IF defending_card.suit = attacking_card.suit
         THEN \/ CARD_RANKS[attacking_card.rank] < CARD_RANKS[defending_card.rank]
              \/ attacking_card.rank = <<65>> /\ defending_card.rank = <<54>>
    ELSE FALSE

\* Server.is_defence_success, reading self.trump_card
is_defence_success(trump, attacking_card, defending_card) ==
    IF attacking_card.suit = trump.suit /\ defending_card.suit # trump.suit THEN FALSE
    ELSE IF attacking_card.suit # trump.suit /\ defending_card.suit = trump.suit THEN TRUE
    ELSE IF defending_card.suit = attacking_card.suit
         THEN CARD_RANKS[attacking_card.rank] < CARD_RANKS[defending_card.rank]
    ELSE FALSE

\* Server.cards_are_in_hand
cards_are_in_hand(hand, card_strings) ==
    LET hand_strings == {CardStr(hand[i]) : i \in DOMAIN hand}
    IN  \A j \in DOMAIN card_strings : card_strings[j] \in hand_strings

\* the rank checks with only the attack cards' ranks allowed
PlayRankCheck_attack_only(tbl, card_objects) ==
    LET first_rank == card_objects[1].rank
        allowed_values == {tbl[i].a.rank : i \in DOMAIN tbl}
    IN  IF \E j \in DOMAIN card_objects : card_objects[j].rank # first_rank
        THEN "InvalidRankGroup"
        ELSE IF tbl # <<>> /\ ~(\A j \in DOMAIN card_objects :
                                   card_objects[j].rank \in allowed_values)
        THEN "RankNotOnTable"
        ELSE "ok"

\* the rank checks of DurakGame.play on the parsed cards
PlayRankCheck(tbl, card_objects) ==
    LET first_rank == card_objects[1].rank
        allowed_values ==
            {tbl[i].a.rank : i \in DOMAIN tbl} \cup
            {tbl[i].d.rank : i \in {j \in DOMAIN tbl : tbl[j].d # NoCard}}
    IN  IF \E j \in DOMAIN card_objects : card_objects[j].rank # first_rank
        THEN "InvalidRankGroup"
        ELSE IF tbl # <<>> /\ ~(\A j \in DOMAIN card_objects :
                                   card_objects[j].rank \in allowed_values)
        THEN "RankNotOnTable"
        ELSE "ok"

\* all(d is not None for _, d in server.table)
AllDefended(tbl) == \A i \in DOMAIN tbl : tbl[i].d # NoCard

\* x in lst
Has(lst, x) == \E i \in DOMAIN lst : lst[i] = x

\* list.remove(x) for an x in lst: the first equal element goes
ListRemove(lst, x) ==
    LET i == CHOOSE k \in DOMAIN lst : lst[k] = x /\ \A m \in 1..(k - 1) : lst[m] # x
    IN  SubSeq(lst, 1, i - 1) \o SubSeq(lst, i + 1, Len(lst))

----------------------------------------------------------------------------
(* Players.                                                                *)

\* a Player object as created by Server.add_player
Player(player_number) == [number |-> player_number, hand |-> <<>>, channel |-> FALSE]

\* reference to the current Player object of an author
Ref(author) == [author |-> author, epoch |-> epoch]

\* the object a reference names is a value of the current players dict
IsCurrent(ref, ps) == ref # NoPlayer /\ ref.epoch = epoch /\ ref.author \in DOMAIN ps

\* sorted(server.players.values(), key=lambda p: p.number), as authors;
\* the dict's insertion order is the same order
players_by_number(ps) ==
    LET S == DOMAIN ps
        pos(a) == Cardinality({b \in S : ps[b].number < ps[a].number}) + 1
    IN  [i \in 1..Cardinality(S) |-> CHOOSE a \in S : pos(a) = i]

\* index of an author in a list of authors, 0 when absent
IndexOf(order, author) ==
    IF \E i \in DOMAIN order : order[i] = author
    THEN CHOOSE i \in DOMAIN order : order[i] = author
    ELSE 0

\* add_player numbering the players from two
add_player_from_two(ps, author) ==
    [a \in DOMAIN ps \cup {author} |->
        IF a \in DOMAIN ps THEN ps[a] ELSE Player(Cardinality(DOMAIN ps) + 2)]

\* Server.add_player for an author not yet in the dict
add_player(ps, author) ==
    [a \in DOMAIN ps \cup {author} |->
        IF a \in DOMAIN ps THEN ps[a] ELSE Player(Cardinality(DOMAIN ps) + 1)]

----------------------------------------------------------------------------
(* Shuffles.  random.shuffle can leave the deck in any order; the orders   *)
(* explored put the cards named in front first and the card named last at  *)
(* the bottom, the others between them in create_deck order.               *)

Arrange(front, last) ==
    LET used == {front[i] : i \in DOMAIN front} \cup {last}
        rest == SelectSeq([k \in DOMAIN create_deck |-> k], LAMBDA k : k \notin used)
        idx  == front \o rest \o <<last>>
    IN  [k \in DOMAIN idx |-> create_deck[idx[k]]]

\* card numbering of create_deck: 4 * (rank position) + suit position,
\* ranks 6 7 8 9 J Q K A, suits hearts diamonds clubs spades
ShuffleInputs ==
    { \* hands 6s 7d 8c 9h Jd Qc and 7s 8d 9c Jh Qd 6d, trump card A of spades
      [front |-> <<4, 6, 11, 13, 18, 23, 8, 10, 15, 17, 22, 2>>, last |-> 32],
      \* hands Ks 6h 6d 7h 8h 9h, Qs 7d 6c 7c 8c 9c and Jd 8d 9d Jh Jc Qd,
      \* trump card A of spades
      [front |-> <<28, 1, 2, 5, 9, 13, 24, 6, 3, 7, 11, 15, 18, 10, 14, 17, 19, 22>>,
       last |-> 32] }

\* Server.initialize_deck with the shuffle's outcome given
initialize_deck(shuffle) == Arrange(shuffle.front, shuffle.last)

----------------------------------------------------------------------------
(* start_game.                                                             *)

\* the lowest-trump scan of one dealt hand: acc = [attacker, lowest_trump]
RECURSIVE LowestTrumpScan(_, _, _, _, _)
LowestTrumpScan(hand, j, trump, author, acc) ==
    IF j > Len(hand) THEN acc
    ELSE LET card == hand[j]
             hit  == card.suit = trump.suit /\
                     (acc.lowest_trump = NoRank \/ StrLess(card.rank, acc.lowest_trump))
         IN  LowestTrumpScan(hand, j + 1, trump, author,
                 IF hit THEN [attacker |-> Ref(author), lowest_trump |-> card.rank]
                 ELSE acc)

\* the per-player loop of start_game; fail_at names the player at whom role or
\* channel creation is refused (0: none)
RECURSIVE DealLoop(_, _, _, _, _)
DealLoop(order, i, fail_at, trump, acc) ==
    IF i > Len(order) THEN acc
    ELSE IF i = fail_at THEN [acc EXCEPT !.res = "ProvisioningFailed"]
    ELSE IF Len(acc.deck) < 6
    THEN \* deck.pop(0) on the emptied list raises IndexError inside the comprehension
         [acc EXCEPT !.res = "crash", !.deck = <<>>,
                     !.players[order[i]].channel = TRUE]
    ELSE LET hand == SubSeq(acc.deck, 1, 6)
             scan == LowestTrumpScan(hand, 1, trump, order[i],
                        [attacker |-> acc.attacker, lowest_trump |-> acc.lowest_trump])
         IN  DealLoop(order, i + 1, fail_at, trump,
                 [acc EXCEPT !.players[order[i]].channel = TRUE,
                             !.players[order[i]].hand = hand,
                             !.deck = SubSeq(acc.deck, 7, Len(acc.deck)),
                             !.attacker = scan.attacker,
                             !.lowest_trump = scan.lowest_trump])

\* the attacker start_game ends with: the scan's, or the first player
InitialAttacker(dealt) ==
    IF dealt.attacker = NoPlayer THEN Ref(players_by_number(dealt.players)[1])
    ELSE dealt.attacker

\* the defender start_game sets: the next player by number after the attacker
InitialDefender(ps, atk) ==
    LET order == players_by_number(ps)
    IN  Ref(order[(IndexOf(order, atk.author) % Len(order)) + 1])

\* the last command: who = 0 when its effect does not depend on its author;
\* cards are the card strings of a /play or /defend that changed the table
Ev(op, who, res, idle) ==
    [op |-> op, who |-> who, res |-> res, idle |-> idle, cards |-> <<>>]

\* no end_turn has completed yet
NoTurn == [rotation |-> <<>>, old_defender |-> 0, turn_taken |-> FALSE,
           emptied |-> {}, durak |-> 0]

\* no rules-engine call is being examined
NoCall == [fn |-> "none", trump |-> NoCard, a |-> NoCard, d |-> NoCard,
           tbl |-> <<>>, cards |-> <<>>, done |-> FALSE, out |-> FALSE]

\* The handlers never read ev, so the state a handler reaches without assigning
\* anything has exactly the successors of the state before it: they are explored
\* from that state, and not again from this one.
Ready == ~ev.idle

Init ==
    /\ state = "SETUP"
    /\ players = << >>
    /\ deck = <<>>
    /\ trump_card = NoCard
    /\ trump_taken = FALSE
    /\ table = <<>>
    /\ attacker = NoPlayer
    /\ defender = NoPlayer
    /\ finished_players = {}
    /\ epoch = 0
    /\ turns = 0
    /\ moves = 0
    /\ ev = Ev("init", 0, "ok", FALSE)
    /\ last_turn = NoTurn
    /\ pending = {}
    /\ call = NoCall

\* on_message, '/durak'
Setup ==
    /\ Ready
    /\ epoch < MaxSetups
    /\ state' = "SETUP"
    /\ players' = << >>
    /\ epoch' = epoch + 1
    /\ ev' = Ev("setup", 0, "ok", FALSE)
    /\ UNCHANGED <<deck, trump_card, trump_taken, table, attacker, defender,
                   finished_players, turns, moves, last_turn, call, pending>>

\* /join refused only while a game is being played
Join_unless_playing(author) ==
    /\ Ready
    /\ players' = IF state # "PLAYING" /\ author \notin DOMAIN players
                  THEN add_player(players, author) ELSE players
    /\ ev' = Ev("join", author,
                IF state = "PLAYING" THEN "Ignored"
                ELSE IF author \in DOMAIN players THEN "AlreadyJoined" ELSE "ok",
                state = "PLAYING" \/ author \in DOMAIN players)
    /\ UNCHANGED <<state, deck, trump_card, trump_taken, table, attacker, defender,
                   finished_players, epoch, turns, moves, last_turn, call, pending>>

\* on_message, '/join'
Join(author) ==
    /\ Ready
    /\ players' = IF state = "SETUP" /\ author \notin DOMAIN players
                  THEN add_player(players, author) ELSE players
    /\ ev' = Ev("join", author,
                IF state # "SETUP" THEN "Ignored"
                ELSE IF author \in DOMAIN players THEN "AlreadyJoined" ELSE "ok",
                state # "SETUP" \/ author \in DOMAIN players)
    /\ UNCHANGED <<state, deck, trump_card, trump_taken, table, attacker, defender,
                   finished_players, epoch, turns, moves, last_turn, call, pending>>

\* start_game
Start(shuffle, fail_at) ==
    /\ Ready
    /\ IF state # "SETUP" \/ Cardinality(DOMAIN players) < 2
       THEN /\ ev' = Ev("start", 0, "NotEnoughPlayers", TRUE)
            /\ UNCHANGED <<state, players, deck, trump_card, trump_taken, table, attacker,
                           defender, finished_players, epoch, turns, moves, last_turn,
                           call, pending>>
       ELSE LET new_deck == initialize_deck(shuffle)
                trump == new_deck[Len(new_deck)]
                dealt == DealLoop(players_by_number(players), 1, fail_at, trump,
                            [players |-> players, deck |-> new_deck, attacker |-> NoPlayer,
                             lowest_trump |-> NoRank, res |-> "ok"])
            IN  /\ state' = "PLAYING"
                /\ trump_card' = trump
                /\ players' = dealt.players
                /\ deck' = dealt.deck
                /\ attacker' = IF dealt.res = "ok" THEN InitialAttacker(dealt)
                               ELSE dealt.attacker
                /\ defender' = IF dealt.res = "ok"
                               THEN InitialDefender(dealt.players, InitialAttacker(dealt))
                               ELSE defender
                /\ ev' = Ev("start", 0, dealt.res, FALSE)
                /\ UNCHANGED <<trump_taken, table, finished_players, epoch, turns,
                               moves, last_turn, call, pending>>

----------------------------------------------------------------------------
(* refill_hands and end_turn.                                              *)

\* the draw loop without the skip of empty hands
RECURSIVE RefillLoop_no_skip(_, _, _, _, _)
RefillLoop_no_skip(order, start_index, i, trump, acc) ==
    IF i >= Len(order) THEN acc
    ELSE LET a    == order[((start_index + i) % Len(order)) + 1]
             hand == acc.players[a].hand
             n    == IF Len(hand) >= 6 THEN 0
                     ELSE IF 6 - Len(hand) <= Len(acc.deck) THEN 6 - Len(hand)
                     ELSE Len(acc.deck)
             drawn == SubSeq(acc.deck, 1, n)
         IN  RefillLoop_no_skip(order, start_index, i + 1, trump,
                 [players |-> [acc.players EXCEPT ![a].hand = hand \o drawn],
                  deck |-> SubSeq(acc.deck, n + 1, Len(acc.deck)),
                  trump_taken |-> acc.trump_taken \/
                                  \E k \in DOMAIN drawn : drawn[k] = trump])

\* the draw loop with the cards drawn from the bottom of the deck
RECURSIVE RefillLoop_from_bottom(_, _, _, _, _)
RefillLoop_from_bottom(order, start_index, i, trump, acc) ==
    IF i >= Len(order) THEN acc
    ELSE LET a    == order[((start_index + i) % Len(order)) + 1]
             hand == acc.players[a].hand
             n    == IF Len(hand) = 0 \/ Len(hand) >= 6 THEN 0
                     ELSE IF 6 - Len(hand) <= Len(acc.deck) THEN 6 - Len(hand)
                     ELSE Len(acc.deck)
             drawn == [k \in 1..n |-> acc.deck[Len(acc.deck) + 1 - k]]
         IN  RefillLoop_from_bottom(order, start_index, i + 1, trump,
                 [players |-> [acc.players EXCEPT ![a].hand = hand \o drawn],
                  deck |-> SubSeq(acc.deck, 1, Len(acc.deck) - n),
                  trump_taken |-> acc.trump_taken \/
                                  \E k \in DOMAIN drawn : drawn[k] = trump])

\* the draw loop filling the hands to five cards
RECURSIVE RefillLoop_to_five(_, _, _, _, _)
RefillLoop_to_five(order, start_index, i, trump, acc) ==
    IF i >= Len(order) THEN acc
    ELSE LET a    == order[((start_index + i) % Len(order)) + 1]
             hand == acc.players[a].hand
             n    == IF Len(hand) = 0 \/ Len(hand) >= 5 THEN 0
                     ELSE IF 5 - Len(hand) <= Len(acc.deck) THEN 5 - Len(hand)
                     ELSE Len(acc.deck)
             drawn == SubSeq(acc.deck, 1, n)
         IN  RefillLoop_to_five(order, start_index, i + 1, trump,
                 [players |-> [acc.players EXCEPT ![a].hand = hand \o drawn],
                  deck |-> SubSeq(acc.deck, n + 1, Len(acc.deck)),
                  trump_taken |-> acc.trump_taken \/
                                  \E k \in DOMAIN drawn : drawn[k] = trump])

\* the draw loop of refill_hands for the players order[i..]: acc = [players, deck,
\* trump_taken]
RECURSIVE RefillLoop(_, _, _, _, _)
RefillLoop(order, start_index, i, trump, acc) ==
    IF i >= Len(order) THEN acc
    ELSE LET a    == order[((start_index + i) % Len(order)) + 1]
             hand == acc.players[a].hand
             n    == IF Len(hand) = 0 \/ Len(hand) >= 6 THEN 0
                     ELSE IF 6 - Len(hand) <= Len(acc.deck) THEN 6 - Len(hand)
                     ELSE Len(acc.deck)
             drawn == SubSeq(acc.deck, 1, n)
         IN  RefillLoop(order, start_index, i + 1, trump,
                 [players |-> [acc.players EXCEPT ![a].hand = hand \o drawn],
                  deck |-> SubSeq(acc.deck, n + 1, Len(acc.deck)),
                  trump_taken |-> acc.trump_taken \/
                                  \E k \in DOMAIN drawn : drawn[k] = trump])

\* elimination only once the deck is used up
Eliminated_deck_empty(ps) == {a \in DOMAIN ps : Len(ps[a].hand) = 0 /\ deck = <<>>}

\* the authors refill_hands eliminates: an empty hand after the draw loop
Eliminated(ps) == {a \in DOMAIN ps : Len(ps[a].hand) = 0}

\* the draw loop started at the first player by number instead of the attacker
refill_hands_from_first(ps, dk, atk, trump, taken, finished) ==
    LET filled == RefillLoop(players_by_number(ps), 0, 0, trump,
                     [players |-> ps, deck |-> dk, trump_taken |-> taken])
        eliminated == Eliminated(filled.players)
    IN  [players |-> [a \in DOMAIN ps \ eliminated |-> filled.players[a]],
         deck |-> filled.deck,
         trump_taken |-> filled.trump_taken,
         finished_players |-> finished \cup eliminated,
         emptied |-> eliminated]

\* Server.refill_hands: [players, deck, trump_taken, finished_players, emptied]
refill_hands(ps, dk, atk, trump, taken, finished) ==
    LET order == players_by_number(ps)
        at    == IndexOf(order, atk.author)
        \* 0-based index of the attacker, 0 when the attacker is not a current player
        start_index == IF IsCurrent(atk, ps) THEN at - 1 ELSE 0
        filled == RefillLoop(order, start_index, 0, trump,
                     [players |-> ps, deck |-> dk, trump_taken |-> taken])
        eliminated == Eliminated(filled.players)
    IN  [players |-> [a \in DOMAIN ps \ eliminated |-> filled.players[a]],
         deck |-> filled.deck,
         trump_taken |-> filled.trump_taken,
         finished_players |-> finished \cup eliminated,
         emptied |-> eliminated]

\* the old defender attacks next whether or not the cards were taken
NewAttackerIndex_no_skip(order, old_defender, turn_taken) ==
    IndexOf(order, old_defender.author)

\* the roles end_turn assigns, as 1-based index of the new attacker in the
\* players sorted by number
NewAttackerIndex(order, old_defender, turn_taken) ==
    LET def_index == IndexOf(order, old_defender.author)
    IN  IF turn_taken THEN (def_index % Len(order)) + 1 ELSE def_index

NewDefenderIndex(order, start_index) == (start_index % Len(order)) + 1

\* the win condition off by one
Won_at_two(ps) == Cardinality(DOMAIN ps) <= 2

\* the win condition of end_turn on the players left after the refill
Won(ps) == Cardinality(DOMAIN ps) = 1

\* the player end_turn reports as the Durak
Durak(ps) == players_by_number(ps)[1]

\* the trump bookkeeping with the replacement card keeping only the rank
TrumpBookkeeping_rank_only(trump, dk) ==
    IF trump # NoCard /\ ~(\E k \in DOMAIN dk : dk[k] = trump)
    THEN Card(trump.rank, <<>>)
    ELSE trump

\* the trump bookkeeping at the end of end_turn: once the trump card is out of
\* the deck, trump_card is assigned a new Card of the same rank and suit
TrumpBookkeeping(trump, dk) ==
    IF trump # NoCard /\ ~(\E k \in DOMAIN dk : dk[k] = trump)
    THEN Card(trump.rank, trump.suit)
    ELSE trump

\* DurakGame.end_turn on the players ps (the hands as the calling handler left
\* them): the new values of everything end_turn and refill_hands assign, and
\* res = "crash" with nothing assigned when the old defender is not one of the
\* sorted players (next() on the exhausted generator raises).  order and
\* old_defender are the locals end_turn takes before its clean-up await.
end_turn_from(ps, turn_taken, order, old_defender) ==
    IF old_defender = NoPlayer \/ old_defender.epoch # epoch
       \/ IndexOf(order, old_defender.author) = 0
    THEN [res |-> "crash", players |-> ps, deck |-> deck, table |-> table,
          attacker |-> attacker, defender |-> defender, state |-> state,
          trump_taken |-> trump_taken, finished_players |-> finished_players,
          trump_card |-> trump_card, last_turn |-> last_turn]
    ELSE LET start_index == NewAttackerIndex(order, old_defender, turn_taken)
             new_attacker == Ref(order[start_index])
             new_defender == Ref(order[NewDefenderIndex(order, start_index)])
             filled == refill_hands(ps, deck, new_attacker, trump_card,
                                    trump_taken, finished_players)
             won == Won(filled.players)
         IN  [res |-> "ok",
              players |-> filled.players,
              deck |-> filled.deck,
              table |-> <<>>,
              attacker |-> new_attacker,
              defender |-> new_defender,
              state |-> IF won THEN "FINISHED" ELSE state,
              trump_taken |->
                  IF won THEN filled.trump_taken
                  ELSE filled.trump_taken \/
                       ~(\E k \in DOMAIN filled.deck : filled.deck[k] = trump_card),
              finished_players |-> filled.finished_players,
              trump_card |-> IF won THEN trump_card
                             ELSE TrumpBookkeeping(trump_card, filled.deck),
              last_turn |->
                  [rotation |-> order, old_defender |-> old_defender.author,
                   turn_taken |-> turn_taken, emptied |-> filled.emptied,
                   durak |-> IF won THEN Durak(filled.players) ELSE 0]]

\* end_turn run without another handler in between: its locals are the sorted
\* players and the defender of the state it works on
end_turn(ps, turn_taken) ==
    end_turn_from(ps, turn_taken, players_by_number(ps), defender)

----------------------------------------------------------------------------
(* The game commands.                                                      *)

\* the checks without the comparison of the author with the role's author
TurnCheck_any_author(author, role) ==
    IF state # "PLAYING" THEN "NoActiveGame"
    ELSE IF role = NoPlayer THEN "crash"
    ELSE IF author \notin DOMAIN players THEN "crash"
    ELSE IF ~players[author].channel THEN "WrongChannel"
    ELSE "ok"

\* the checks is_game_active and is_player_turn make before a handler runs,
\* then get_player and the channel test of the handler; role is the attacker or
\* the defender.  The command is sent in the author's own game channel.
TurnCheck(author, role) ==
    IF state # "PLAYING" THEN "NoActiveGame"
    ELSE IF role = NoPlayer THEN "crash"
    ELSE IF author # role.author THEN "NotYourTurn"
    ELSE IF author \notin DOMAIN players THEN "crash"
    ELSE IF ~players[author].channel THEN "WrongChannel"
    ELSE "ok"

\* the loop that plays the cards, each card put at the head of the table
RECURSIVE PlayLoop_at_head(_, _, _)
PlayLoop_at_head(card_objects, j, acc) ==
    IF j > Len(card_objects) THEN acc
    ELSE IF ~Has(acc.hand, card_objects[j])
    THEN [acc EXCEPT !.res = "InvalidCardFormat"]
    ELSE PlayLoop_at_head(card_objects, j + 1,
             [acc EXCEPT !.hand = ListRemove(acc.hand, card_objects[j]),
                         !.table = <<[a |-> card_objects[j], d |-> NoCard]>>
                                   \o acc.table])

\* the loop that plays the cards: acc = [hand, table, res]
RECURSIVE PlayLoop(_, _, _)
PlayLoop(card_objects, j, acc) ==
    IF j > Len(card_objects) THEN acc
    ELSE IF ~Has(acc.hand, card_objects[j])
    THEN [acc EXCEPT !.res = "InvalidCardFormat"]
    ELSE PlayLoop(card_objects, j + 1,
             [acc EXCEPT !.hand = ListRemove(acc.hand, card_objects[j]),
                         !.table = Append(acc.table,
                                          [a |-> card_objects[j], d |-> NoCard])])

\* DurakGame.play after the turn checks, on a server whose table is tbl and
\* whose defender is dfn: [hand, table, res]
play_on(tbl, dfn, hand, cards) ==
    LET same == [hand |-> hand, table |-> tbl, res |-> "ok"]
    IN  IF cards = <<>> THEN [same EXCEPT !.res = "NoCards"]
        ELSE IF ~cards_are_in_hand(hand, cards)
        THEN [same EXCEPT !.res = "CardsNotInHand"]
        ELSE IF \E j \in DOMAIN cards : from_string_fails(cards[j])
        THEN [same EXCEPT !.res = "InvalidCardFormat"]
        ELSE LET card_objects == [j \in DOMAIN cards |-> from_string(cards[j])]
                 ranks == PlayRankCheck(tbl, card_objects)
             IN  IF ranks # "ok" THEN [same EXCEPT !.res = ranks]
                 ELSE LET played == PlayLoop(card_objects, 1, same)
                      IN  IF played.res = "ok" /\ dfn = NoPlayer
                          THEN [played EXCEPT !.res = "crash"]
                          ELSE played

\* DurakGame.play after the turn checks, on the session of the variables
play(hand, cards) == play_on(table, defender, hand, cards)

\* indices of the undefended pairs, the last one first
Undefended_last_first(tbl) ==
    LET up == SelectSeq([i \in DOMAIN tbl |-> i], LAMBDA i : tbl[i].d = NoCard)
    IN  [j \in DOMAIN up |-> up[Len(up) + 1 - j]]

\* indices of the undefended pairs, in table order
Undefended(tbl) == SelectSeq([i \in DOMAIN tbl |-> i], LAMBDA i : tbl[i].d = NoCard)

\* the loop that applies a defence: acc = [hand, table, res]
RECURSIVE DefendLoop(_, _, _, _)
DefendLoop(card_objects, undefended, j, acc) ==
    IF j > Len(undefended) THEN acc
    ELSE LET tbl == [acc.table EXCEPT ![undefended[j]].d = card_objects[j]]
         IN  IF ~Has(acc.hand, card_objects[j])
             THEN [acc EXCEPT !.table = tbl, !.res = "InvalidCardFormat"]
             ELSE DefendLoop(card_objects, undefended, j + 1,
                      [acc EXCEPT !.table = tbl,
                                  !.hand = ListRemove(acc.hand, card_objects[j])])

\* the pairing check of DurakGame.defend
ValidDefence(tbl, undefended, card_objects) ==
    \A j \in DOMAIN undefended :
        is_defence_success(trump_card, tbl[undefended[j]].a, card_objects[j])

\* defend placing each card before it checks the pairing
RECURSIVE DefendLoopChecking(_, _, _, _)
DefendLoopChecking(card_objects, undefended, j, acc) ==
    IF j > Len(undefended) THEN acc
    ELSE IF ~is_defence_success(trump_card, acc.table[undefended[j]].a, card_objects[j])
    THEN [acc EXCEPT !.res = "InvalidDefense"]
    ELSE DefendLoopChecking(card_objects, undefended, j + 1,
             [acc EXCEPT !.table[undefended[j]].d = card_objects[j],
                         !.hand = IF Has(acc.hand, card_objects[j])
                                  THEN ListRemove(acc.hand, card_objects[j])
                                  ELSE acc.hand])

defend_check_while_placing(hand, cards) ==
    LET same == [hand |-> hand, table |-> table, res |-> "ok"]
        undefended == Undefended(table)
    IN  IF table = <<>> THEN [same EXCEPT !.res = "NothingToDefend"]
        ELSE IF AllDefended(table) THEN [same EXCEPT !.res = "AlreadyDefended"]
        ELSE IF cards = <<>> THEN [same EXCEPT !.res = "NoCards"]
        ELSE IF ~cards_are_in_hand(hand, cards)
        THEN [same EXCEPT !.res = "CardsNotInHand"]
        ELSE IF Len(cards) # Len(undefended) THEN [same EXCEPT !.res = "WrongCount"]
        ELSE DefendLoopChecking([j \in DOMAIN cards |-> from_string(cards[j])],
                                undefended, 1, same)

\* DurakGame.defend after the turn checks: [hand, table, res]
defend(hand, cards) ==
    LET same == [hand |-> hand, table |-> table, res |-> "ok"]
        undefended == Undefended(table)
    IN  IF table = <<>> THEN [same EXCEPT !.res = "NothingToDefend"]
        ELSE IF AllDefended(table) THEN [same EXCEPT !.res = "AlreadyDefended"]
        ELSE IF cards = <<>> THEN [same EXCEPT !.res = "NoCards"]
        ELSE IF ~cards_are_in_hand(hand, cards)
        THEN [same EXCEPT !.res = "CardsNotInHand"]
        ELSE IF Len(cards) # Len(undefended) THEN [same EXCEPT !.res = "WrongCount"]
        ELSE IF \E j \in DOMAIN cards : from_string_fails(cards[j])
        THEN [same EXCEPT !.res = "InvalidCardFormat"]
        ELSE LET card_objects == [j \in DOMAIN cards |-> from_string(cards[j])]
             IN  IF ~ValidDefence(table, undefended, card_objects)
                 THEN [same EXCEPT !.res = "InvalidDefense"]
                 ELSE LET done == DefendLoop(card_objects, undefended, 1, same)
                      IN  IF done.res = "ok" /\ AllDefended(done.table) /\
                             attacker = NoPlayer
                          THEN [done EXCEPT !.res = "crash"]
                          ELSE done

\* take picking up the attack cards only
TableCards_attack_only(tbl) == [i \in DOMAIN tbl |-> tbl[i].a]

\* the cards DurakGame.take appends to the defender's hand
RECURSIVE TableCards(_)
TableCards(tbl) ==
    IF tbl = <<>> THEN <<>>
    ELSE (IF Head(tbl).d = NoCard THEN <<Head(tbl).a>> ELSE <<Head(tbl).a, Head(tbl).d>>)
         \o TableCards(Tail(tbl))

\* the card strings a command may name: the author's cards, a card of no deck
\* ('10' of hearts) and a string too short for a card
Tokens(author) ==
    (IF author \in DOMAIN players
     THEN {CardStr(players[author].hand[i]) : i \in DOMAIN players[author].hand}
     ELSE {})
    \cup {<<49, 48, 9829, 65039>>, <<54>>}

TokenLists(author) ==
    UNION {[1..n -> Tokens(author)] : n \in 0..MaxTokens}

\* a handler that returned without assigning anything
Idle(op, author, res) ==
    /\ ev' = Ev(op, author, res, TRUE)
    /\ UNCHANGED <<state, players, deck, trump_card, trump_taken, table, attacker,
                   defender, finished_players, epoch, turns, moves, last_turn, call, pending>>

\* /play
Play(author, cards) ==
    /\ Ready
    /\ turns < MaxTurns \/ state # "PLAYING"
    /\ LET check == TurnCheck(author, attacker)
       IN  IF check # "ok" THEN Idle("play", author, check)
           ELSE LET r == play(players[author].hand, cards)
                IN  /\ players' = [players EXCEPT ![author].hand = r.hand]
                    /\ table' = r.table
                    /\ ev' = [op |-> "play", who |-> author, res |-> r.res,
                              idle |-> r.table = table,
                              cards |-> IF r.table = table THEN <<>> ELSE cards]
                    /\ moves' = IF r.table = table THEN moves ELSE moves + 1
                    /\ UNCHANGED <<state, deck, trump_card, trump_taken, attacker,
                                   defender, finished_players, epoch, turns,
                                   last_turn, call, pending>>

\* /defend
Defend(author, cards) ==
    /\ Ready
    /\ turns < MaxTurns \/ state # "PLAYING"
    /\ LET check == TurnCheck(author, defender)
       IN  IF check # "ok" THEN Idle("defend", author, check)
           ELSE LET r == defend(players[author].hand, cards)
                IN  /\ players' = [players EXCEPT ![author].hand = r.hand]
                    /\ table' = r.table
                    /\ ev' = [op |-> "defend", who |-> author, res |-> r.res,
                              idle |-> r.table = table,
                              cards |-> IF r.table = table THEN <<>> ELSE cards]
                    /\ moves' = IF r.table = table THEN moves ELSE moves + 1
                    /\ UNCHANGED <<state, deck, trump_card, trump_taken, attacker,
                                   defender, finished_players, epoch, turns,
                                   last_turn, call, pending>>

\* the assignments of an end_turn whose outcome is r
AssignTurn(op, author, r) ==
    /\ players' = r.players
    /\ deck' = r.deck
    /\ table' = r.table
    /\ attacker' = r.attacker
    /\ defender' = r.defender
    /\ state' = r.state
    /\ trump_taken' = r.trump_taken
    /\ finished_players' = r.finished_players
    /\ last_turn' = r.last_turn
    /\ turns' = turns + 1
    /\ moves' = moves + 1
    /\ trump_card' = r.trump_card
    /\ ev' = Ev(op, author, r.res, FALSE)
    /\ UNCHANGED <<epoch, call>>

\* what take and giveup do once their checks have passed: end_turn on the given hands
EndTurnAssign(op, author, ps, turn_taken) ==
    AssignTurn(op, author, end_turn(ps, turn_taken))

\* end_turn run to its end within the handler's step
EndTurnStep(op, author, ps, turn_taken) ==
    EndTurnAssign(op, author, ps, turn_taken) /\ UNCHANGED pending

\* /take
Take(author) ==
    /\ Ready
    /\ turns < MaxTurns \/ state # "PLAYING"
    /\ LET check == TurnCheck(author, defender)
       IN  IF check # "ok" THEN Idle("take", author, check)
           ELSE IF table = <<>> THEN Idle("take", author, "NothingToTake")
           ELSE IF AllDefended(table) THEN Idle("take", author, "AlreadyDefended")
           ELSE EndTurnStep("take", author,
                    [players EXCEPT ![author].hand = @ \o TableCards(table)], TRUE)

\* the table checks of giveup without the test for undefended cards
GiveUpCheck_nonempty_only(tbl) ==
    IF tbl = <<>> THEN "NothingOnTable" ELSE "ok"

\* the table checks of giveup: something was played and all of it is beaten
GiveUpCheck(tbl) ==
    IF tbl = <<>> THEN "NothingOnTable"
    ELSE IF \E i \in DOMAIN tbl : tbl[i].d = NoCard THEN "AttackNotFullyDefended"
    ELSE "ok"

\* /giveup
GiveUp(author) ==
    /\ Ready
    /\ turns < MaxTurns \/ state # "PLAYING"
    /\ LET check == TurnCheck(author, attacker)
       IN  IF check # "ok" THEN Idle("giveup", author, check)
           ELSE IF GiveUpCheck(table) # "ok"
           THEN Idle("giveup", author, GiveUpCheck(table))
           ELSE EndTurnStep("giveup", author, players, FALSE)

\* a session from the construction of the Server to the end of its first game
Next ==
    \/ \E author \in Authors : Join(author)
    \/ \E shuffle \in ShuffleInputs, fail_at \in 0..NumAuthors : Start(shuffle, fail_at)
    \/ \E author \in Authors : \E cards \in TokenLists(author) : Play(author, cards)
    \/ \E author \in Authors : \E cards \in TokenLists(author) : Defend(author, cards)
    \/ \E author \in Authors : Take(author)
    \/ \E author \in Authors : GiveUp(author)

Spec == Init /\ [][Next]_vars

\* /durak once a game has ended
SetupFinished == state = "FINISHED" /\ Setup

\* a session that is set up again after its first game has ended
NextFinish ==
    \/ SetupFinished
    \/ \E author \in Authors : Join(author)
    \/ \E shuffle \in ShuffleInputs, fail_at \in 0..NumAuthors : Start(shuffle, fail_at)
    \/ \E author \in Authors : \E cards \in TokenLists(author) : Play(author, cards)
    \/ \E author \in Authors : \E cards \in TokenLists(author) : Defend(author, cards)
    \/ \E author \in Authors : Take(author)
    \/ \E author \in Authors : GiveUp(author)

SpecFinish == Init /\ [][NextFinish]_vars

\* authors that join before a start, in the sessions that only join and start
MaxDealPlayers == 6

\* the joining and the start of a session with up to MaxDealPlayers authors
NextDeal ==
    \/ \E author \in 1..MaxDealPlayers : Join(author)
    \/ \E shuffle \in ShuffleInputs, fail_at \in 0..MaxDealPlayers :
           Start(shuffle, fail_at)

SpecDeal == Init /\ [][NextDeal]_vars

\* a session in which /durak may reset the game at any point
NextReset ==
    \/ Setup
    \/ \E author \in Authors : Join(author)
    \/ \E shuffle \in ShuffleInputs, fail_at \in 0..NumAuthors : Start(shuffle, fail_at)
    \/ \E author \in Authors : \E cards \in TokenLists(author) :
            moves < MaxMoves /\ Play(author, cards)
    \/ \E author \in Authors : \E cards \in TokenLists(author) :
            moves < MaxMoves /\ Defend(author, cards)
    \/ \E author \in Authors : moves < MaxMoves /\ Take(author)
    \/ \E author \in Authors : moves < MaxMoves /\ GiveUp(author)

SpecReset == Init /\ [][NextReset]_vars

----------------------------------------------------------------------------
(* Handlers as coroutines.  discord.py runs every command in a task of its *)
(* own, so a handler that waits at an await shares the session with the    *)
(* handlers that run meanwhile.  Two awaits are modelled as suspension     *)
(* points: the first statement of play (safe_delete_message, after the     *)
(* decorators' checks and before the body) and the message clean-up at the *)
(* head of end_turn (before the roles and the table are assigned).  The    *)
(* other awaits are passed without another handler running.                *)

\* plays that may wait at their first await at the same time
MaxPendingPlays == 1

\* the checks of the decorators is_game_active and is_player_turn alone
RoleCheck(author, role) ==
    IF state # "PLAYING" THEN "NoActiveGame"
    ELSE IF role = NoPlayer THEN "crash"
    ELSE IF author # role.author THEN "NotYourTurn"
    ELSE "ok"

\* get_player and the channel test at the head of a handler's body
BodyCheck(author) ==
    IF author \notin DOMAIN players THEN "crash"
    ELSE IF ~players[author].channel THEN "WrongChannel"
    ELSE "ok"

\* a suspended handler: where it waits, its command and arguments, and (for
\* end_turn) the table as it was when end_turn was entered
Suspended(pc, op, author, cards, turn_taken, seen) ==
    [pc |-> pc, op |-> op, author |-> author, cards |-> cards,
     turn_taken |-> turn_taken, seen |-> seen]

\* /play up to its first await: the decorators have passed
PlayBegin(author, cards) ==
    /\ Ready
    /\ turns < MaxTurns /\ moves < MaxAsyncMoves
    /\ Cardinality({p \in pending : p.pc = "play"}) < MaxPendingPlays
    /\ LET check == RoleCheck(author, attacker)
       IN  IF check # "ok" THEN Idle("play", author, check)
           ELSE /\ pending' = pending \cup
                        {Suspended("play", "play", author, cards, FALSE, <<>>)}
                /\ ev' = Ev("play", author, "suspended", FALSE)
                /\ UNCHANGED <<state, players, deck, trump_card, trump_taken, table,
                               attacker, defender, finished_players, epoch, turns,
                               moves, last_turn, call>>

\* the body of /play, resumed after the await
PlayResume(p) ==
    /\ Ready
    /\ p.pc = "play"
    /\ pending' = pending \ {p}
    /\ LET check == BodyCheck(p.author)
       IN  IF check # "ok"
           THEN /\ ev' = Ev("play", p.author, check, FALSE)
                /\ UNCHANGED <<state, players, deck, trump_card, trump_taken, table,
                               attacker, defender, finished_players, epoch, turns,
                               moves, last_turn, call>>
           ELSE LET r == play(players[p.author].hand, p.cards)
                IN  /\ players' = [players EXCEPT ![p.author].hand = r.hand]
                    /\ table' = r.table
                    /\ ev' = [Ev("play", p.author, r.res, FALSE) EXCEPT
                                 !.cards = IF r.table = table THEN <<>> ELSE p.cards]
                    /\ moves' = IF r.table = table THEN moves ELSE moves + 1
                    /\ UNCHANGED <<state, deck, trump_card, trump_taken, attacker,
                                   defender, finished_players, epoch, turns,
                                   last_turn, call>>

\* /take or /giveup up to the clean-up await of end_turn: the checks have passed
\* and take has moved the table's cards into the hand
EndTurnBegin(op, author) ==
    /\ Ready
    /\ turns < MaxTurns /\ moves < MaxAsyncMoves
    /\ \A p \in pending : p.pc # "end_turn"
    /\ LET check == TurnCheck(author, IF op = "take" THEN defender ELSE attacker)
       IN  IF check # "ok" THEN Idle(op, author, check)
           ELSE IF table = <<>>
           THEN Idle(op, author,
                     IF op = "take" THEN "NothingToTake" ELSE "NothingOnTable")
           ELSE IF (op = "take") = AllDefended(table)
           THEN Idle(op, author,
                     IF op = "take" THEN "AlreadyDefended" ELSE "AttackNotFullyDefended")
           ELSE /\ players' = IF op = "take"
                              THEN [players EXCEPT ![author].hand = @ \o TableCards(table)]
                              ELSE players
                /\ pending' = pending \cup
                        {Suspended("end_turn", op, author, <<>>, op = "take", table)}
                /\ ev' = Ev(op, author, "suspended", FALSE)
                /\ UNCHANGED <<state, deck, trump_card, trump_taken, table, attacker,
                               defender, finished_players, epoch, turns, moves,
                               last_turn, call>>

\* end_turn resumed after its clean-up await
EndTurnResume(p) ==
    /\ Ready
    /\ p.pc = "end_turn"
    /\ pending' = pending \ {p}
    /\ EndTurnAssign(p.op, p.author, players, p.turn_taken)

\* the card lists of the interleaved sessions: one token each
OneToken(author) == {<<t>> : t \in Tokens(author)}

NextAsync ==
    \/ \E author \in Authors : Join(author)
    \/ \E shuffle \in ShuffleInputs : Start(shuffle, 0)
    \/ \E author \in Authors : \E cards \in OneToken(author) : PlayBegin(author, cards)
    \/ \E p \in pending : PlayResume(p)
    \/ \E author \in Authors : \E cards \in OneToken(author) :
            moves < MaxAsyncMoves /\ Defend(author, cards)
    \/ \E author \in Authors : EndTurnBegin("take", author)
    \/ \E author \in Authors : EndTurnBegin("giveup", author)
    \/ \E p \in pending : EndTurnResume(p)

SpecAsync == Init /\ [][NextAsync]_vars

----------------------------------------------------------------------------
(* The end of the deck.  With as many players as create_deck's cards deal  *)
(* to, a start leaves two cards in the deck, so the first refills draw the *)
(* trump card and the game goes on with the deck empty.                    *)

\* end_turns explored in these sessions
MaxEndgameTurns == 2

\* the most players a start can deal six cards each
EndgamePlayers == Len(create_deck) \div 6

\* hands 6s 6h 7h 8h 9h Jh, 7s 6d 7d 8d 9d Jd, 8s 6c 7c 8c 9c Jc,
\* 9s Qh Qd Qc Kh Kd and Js Qs Ks Kc Ah Ad, trump card A of spades
EndgameShuffles ==
    { [front |-> <<4, 1, 5, 9, 13, 17, 8, 2, 6, 10, 14, 18, 12, 3, 7, 11, 15, 19,
                   16, 21, 22, 23, 25, 26, 20, 24, 28, 27, 29, 30>>,
       last |-> 32] }

\* the session as constructed, with MaxEndgameTurns turns to go
InitEndgame ==
    /\ state = "SETUP"
    /\ players = << >>
    /\ deck = <<>>
    /\ trump_card = NoCard
    /\ trump_taken = FALSE
    /\ table = <<>>
    /\ attacker = NoPlayer
    /\ defender = NoPlayer
    /\ finished_players = {}
    /\ epoch = 0
    /\ turns = MaxTurns - MaxEndgameTurns
    /\ moves = 0
    /\ ev = Ev("init", 0, "ok", FALSE)
    /\ last_turn = NoTurn
    /\ pending = {}
    /\ call = NoCall

\* the authors join one after the other, the game starts when all have joined
\* and is played with one card named per command
NextEndgame ==
    \/ \E author \in 1..EndgamePlayers :
            author = Cardinality(DOMAIN players) + 1 /\ Join(author)
    \/ \E shuffle \in EndgameShuffles :
            Cardinality(DOMAIN players) = EndgamePlayers /\ Start(shuffle, 0)
    \/ \E author \in 1..EndgamePlayers : \E cards \in OneToken(author) :
            Play(author, cards)
    \/ \E author \in 1..EndgamePlayers : \E cards \in OneToken(author) :
            Defend(author, cards)
    \/ \E author \in 1..EndgamePlayers : Take(author)
    \/ \E author \in 1..EndgamePlayers : GiveUp(author)

SpecEndgame == InitEndgame /\ [][NextEndgame]_vars

\* a session of NumAuthors players that goes on after its first turn has ended:
\* the authors join one after the other, the game starts when all have joined,
\* and the commands come from the players whose turn it is, one card named per
\* command
\* the one-token lists that name a card of the author's hand
HandToken(author) ==
    IF author \in DOMAIN players
    THEN {<<CardStr(players[author].hand[i])>> : i \in DOMAIN players[author].hand}
    ELSE {}

NextSecondTurn ==
    \/ \E author \in Authors :
            author = Cardinality(DOMAIN players) + 1 /\ Join(author)
    \/ \E shuffle \in ShuffleInputs :
            Cardinality(DOMAIN players) = NumAuthors /\ Start(shuffle, 0)
    \/ \E author \in Authors : \E cards \in HandToken(author) :
            author = attacker.author /\ Play(author, cards)
    \/ \E author \in Authors : \E cards \in HandToken(author) :
            author = defender.author /\ Defend(author, cards)
    \/ \E author \in Authors : author = defender.author /\ Take(author)
    \/ \E author \in Authors : author = attacker.author /\ GiveUp(author)

SpecSecondTurn == InitEndgame /\ [][NextSecondTurn]_vars

\* hands 6s 7d 8c 9h Jd Qc and 7s 8d 9c Jh Qd Kc, trump card A of spades: the
\* second hand beats the first card for card
BothOutShuffles ==
    { [front |-> <<4, 6, 11, 13, 18, 23, 8, 10, 15, 17, 22, 27>>, last |-> 32] }

\* a game of two in which the commands come from the players whose turn it is,
\* one card named per command
NextBothOut ==
    \/ \E author \in 1..2 :
            author = Cardinality(DOMAIN players) + 1 /\ Join(author)
    \/ \E shuffle \in BothOutShuffles :
            Cardinality(DOMAIN players) = 2 /\ Start(shuffle, 0)
    \/ \E author \in 1..2 : \E cards \in HandToken(author) :
            author = attacker.author /\ Play(author, cards)
    \/ \E author \in 1..2 : \E cards \in HandToken(author) :
            author = defender.author /\ Defend(author, cards)
    \/ \E author \in 1..2 : author = defender.author /\ Take(author)
    \/ \E author \in 1..2 : author = attacker.author /\ GiveUp(author)

SpecBothOut == Init /\ [][NextBothOut]_vars

----------------------------------------------------------------------------
(* Two /take commands of the defender in flight.  The first has passed its *)
(* checks, moved the table's cards into the hand and waits at the clean-up *)
(* await of end_turn, with end_turn's locals taken; the table is cleared   *)
(* only after that await, so a second /take passes the same checks.        *)

\* /take commands that may wait in end_turn at the same time
MaxPendingTakes == 2

\* /take up to the clean-up await of end_turn: the checks have passed, the
\* table's cards are in the hand, and end_turn has taken its locals
TakeEnter(author) ==
    /\ Ready
    /\ turns < MaxTurns
    /\ Cardinality(pending) < MaxPendingTakes
    /\ LET check == TurnCheck(author, defender)
       IN  IF check # "ok" THEN Idle("take", author, check)
           ELSE IF table = <<>> THEN Idle("take", author, "NothingToTake")
           ELSE IF AllDefended(table) THEN Idle("take", author, "AlreadyDefended")
           ELSE /\ players' = [players EXCEPT ![author].hand = @ \o TableCards(table)]
                /\ pending' = pending \cup
                        {[pc |-> "end_turn", op |-> "take", author |-> author,
                          turn_taken |-> TRUE, seen |-> table,
                          order |-> players_by_number(players),
                          old_defender |-> defender,
                          task |-> Cardinality(pending) + 1]}
                /\ ev' = Ev("take", author, "suspended", FALSE)
                /\ UNCHANGED <<state, deck, trump_card, trump_taken, table, attacker,
                               defender, finished_players, epoch, turns, moves,
                               last_turn, call>>

\* end_turn resumed after its clean-up await, with the locals it took
TakeFinish(p) ==
    /\ Ready
    /\ pending' = pending \ {p}
    /\ AssignTurn(p.op, p.author,
                  end_turn_from(players, p.turn_taken, p.order, p.old_defender))

\* a game of two in which the commands come from the players whose turn it is,
\* one card named per command, and the takes wait in end_turn
NextTwoTakes ==
    \/ \E author \in 1..2 :
            author = Cardinality(DOMAIN players) + 1 /\ Join(author)
    \/ \E shuffle \in {s \in ShuffleInputs : Len(s.front) = 12} :
            Cardinality(DOMAIN players) = 2 /\ Start(shuffle, 0)
    \/ \E author \in 1..2 : \E cards \in HandToken(author) :
            author = attacker.author /\ Play(author, cards)
    \/ \E author \in 1..2 : \E cards \in HandToken(author) :
            author = defender.author /\ Defend(author, cards)
    \/ \E author \in 1..2 : author = defender.author /\ TakeEnter(author)
    \/ \E p \in pending : TakeFinish(p)

SpecTwoTakes == Init /\ [][NextTwoTakes]_vars

----------------------------------------------------------------------------
(* A second game on the session after a /durak in mid-game, its shuffle    *)
(* leaving another trump card at the bottom of the deck.                   *)

\* hands 6s 7d 8c 9h Jd Qc and 7s 8d 9c Jh Qd 6d, trump card A of spades or
\* A of diamonds
RetrumpShuffles ==
    { [front |-> <<4, 6, 11, 13, 18, 23, 8, 10, 15, 17, 22, 2>>, last |-> 32],
      [front |-> <<4, 6, 11, 13, 18, 23, 8, 10, 15, 17, 22, 2>>, last |-> 30] }

\* a session of two that can be set up again at any moment; the commands come
\* from the players whose turn it is, one card named per command
NextRetrump ==
    \/ Setup
    \/ \E author \in 1..2 :
            author = Cardinality(DOMAIN players) + 1 /\ Join(author)
    \/ \E shuffle \in RetrumpShuffles :
            Cardinality(DOMAIN players) = 2 /\ Start(shuffle, 0)
    \/ \E author \in 1..2 : \E cards \in HandToken(author) :
            author = attacker.author /\ moves < MaxMoves /\ Play(author, cards)
    \/ \E author \in 1..2 : \E cards \in HandToken(author) :
            author = defender.author /\ moves < MaxMoves /\ Defend(author, cards)
    \/ \E author \in 1..2 : author = defender.author /\ moves < MaxMoves /\ Take(author)
    \/ \E author \in 1..2 : author = attacker.author /\ moves < MaxMoves /\ GiveUp(author)

SpecRetrump == Init /\ [][NextRetrump]_vars

----------------------------------------------------------------------------
(* The single-file variant main.py: cards are (label, suit) tuples, read   *)
(* here as records with rank = card[0] and suit = card[1]; the flags        *)
(* game_setup and game are read as the states IDLE (both false), SETUP     *)
(* (game_setup) and PLAYING (game).  The calls to the platform succeed.    *)

\* Server.card_ranks of main.py
main_card_ranks == CARD_RANKS

\* (card[:-2], card[-2:]) of a card string
main_card_tuple(card) ==
    Card(SubSeq(card, 1, Len(card) - 2), SubSeq(card, Len(card) - 1, Len(card)))

\* Server.is_defence_success of main.py, the trump read from server.trump_card[1]
main_is_defence_success(trump, attacking_card, defending_card) ==
    IF attacking_card.suit = trump.suit /\ defending_card.suit # trump.suit THEN FALSE
    ELSE IF attacking_card.suit # trump.suit /\ defending_card.suit = trump.suit THEN TRUE
    ELSE IF defending_card.suit = attacking_card.suit
    THEN main_card_ranks[attacking_card.rank] < main_card_ranks[defending_card.rank]
    ELSE FALSE

\* Server.refill_hands of main.py
main_refill_hands(ps, dk, atk, trump, taken, finished) ==
    refill_hands(ps, dk, atk, trump, taken, finished)

\* the replacement of the trump card at the end of end_turn of main.py: once the
\* card is not in the deck, the tuple (trump_card[1], '')
main_TrumpBookkeeping(trump, dk) ==
    IF trump # NoCard /\ ~(\E k \in DOMAIN dk : dk[k] = trump)
    THEN Card(trump.suit, <<>>)
    ELSE trump

\* end_turn of main.py on the players ps; on a win it returns before the trump
\* bookkeeping and leaves the flag game set
main_end_turn(ps, turn_taken) ==
    LET order == players_by_number(ps)
    IN  IF ~IsCurrent(defender, ps)
        THEN [res |-> "crash", players |-> ps, deck |-> deck, table |-> table,
              attacker |-> attacker, defender |-> defender,
              trump_taken |-> trump_taken, finished_players |-> finished_players,
              trump_card |-> trump_card, last_turn |-> last_turn]
        ELSE LET start_index == NewAttackerIndex(order, defender, turn_taken)
                 new_attacker == Ref(order[start_index])
                 new_defender == Ref(order[NewDefenderIndex(order, start_index)])
                 filled == main_refill_hands(ps, deck, new_attacker, trump_card,
                                             trump_taken, finished_players)
                 won == Cardinality(DOMAIN filled.players) = 1
             IN  [res |-> "ok",
                  players |-> filled.players,
                  deck |-> filled.deck,
                  table |-> <<>>,
                  attacker |-> new_attacker,
                  defender |-> new_defender,
                  trump_taken |-> filled.trump_taken,
                  finished_players |-> filled.finished_players,
                  trump_card |-> IF won THEN trump_card
                                 ELSE main_TrumpBookkeeping(trump_card, filled.deck),
                  last_turn |->
                      [rotation |-> order, old_defender |-> defender.author,
                       turn_taken |-> turn_taken, emptied |-> filled.emptied,
                       durak |-> IF won THEN Durak(filled.players) ELSE 0]]

\* the checks at the head of a command of main.py; role is the attacker or the
\* defender, whose Player object the handler works on
main_TurnCheck(author, role) ==
    IF state # "PLAYING" THEN "NoActiveGame"
    ELSE IF role = NoPlayer THEN "crash"
    ELSE IF author # role.author THEN "NotYourTurn"
    ELSE IF ~IsCurrent(role, players) THEN "crash"
    ELSE "ok"

\* the holder of the lowest trump by card_ranks among the dealt hands, the first
\* player when no hand holds a trump
main_first_attacker(ps, trump) ==
    LET holds(a) == {i \in DOMAIN ps[a].hand : ps[a].hand[i].suit = trump.suit}
        trumps == {<<a, i>> \in (DOMAIN ps) \X (1..6) : i \in holds(a)}
    IN  IF trumps = {} THEN Ref(players_by_number(ps)[1])
        ELSE Ref((CHOOSE t \in trumps : \A u \in trumps :
                      main_card_ranks[ps[t[1]].hand[t[2]].rank] <=
                      main_card_ranks[ps[u[1]].hand[u[2]].rank])[1])

\* on_message of main.py, '/durak'
MainSetup ==
    /\ Ready
    /\ epoch < MaxSetups
    /\ state' = "SETUP"
    /\ players' = << >>
    /\ epoch' = epoch + 1
    /\ ev' = Ev("setup", 0, "ok", FALSE)
    /\ UNCHANGED <<deck, trump_card, trump_taken, table, attacker, defender,
                   finished_players, turns, moves, last_turn, call, pending>>

\* on_message of main.py, '/join'
MainJoin(author) ==
    /\ Ready
    /\ players' = IF state = "SETUP" /\ author \notin DOMAIN players
                  THEN add_player(players, author) ELSE players
    /\ ev' = Ev("join", author,
                IF state # "SETUP" THEN "Ignored"
                ELSE IF author \in DOMAIN players THEN "AlreadyJoined" ELSE "ok",
                state # "SETUP" \/ author \in DOMAIN players)
    /\ UNCHANGED <<state, deck, trump_card, trump_taken, table, attacker, defender,
                   finished_players, epoch, turns, moves, last_turn, call, pending>>

\* start_game of main.py for players the deck deals six cards each; call.trump
\* keeps the trump card as dealt
MainStart(shuffle) ==
    /\ Ready
    /\ 6 * Cardinality(DOMAIN players) <= Len(create_deck)
    /\ IF state # "SETUP" \/ Cardinality(DOMAIN players) < 2
       THEN /\ ev' = Ev("start", 0, "NotEnoughPlayers", TRUE)
            /\ UNCHANGED <<state, players, deck, trump_card, trump_taken, table, attacker,
                           defender, finished_players, epoch, turns, moves, last_turn,
                           call, pending>>
       ELSE LET new_deck == initialize_deck(shuffle)
                trump == new_deck[Len(new_deck)]
                order == players_by_number(players)
                dealt == [a \in DOMAIN players |->
                            [players[a] EXCEPT
                                !.channel = TRUE,
                                !.hand = SubSeq(new_deck, 6 * IndexOf(order, a) - 5,
                                                6 * IndexOf(order, a))]]
                first == main_first_attacker(dealt, trump)
            IN  /\ state' = "PLAYING"
                /\ trump_card' = trump
                /\ players' = dealt
                /\ deck' = SubSeq(new_deck, 6 * Len(order) + 1, Len(new_deck))
                /\ attacker' = first
                /\ defender' = Ref(order[(IndexOf(order, first.author) % Len(order)) + 1])
                /\ call' = [NoCall EXCEPT !.fn = "main", !.trump = trump]
                /\ ev' = Ev("start", 0, "ok", FALSE)
                /\ UNCHANGED <<trump_taken, table, finished_players, epoch, turns,
                               moves, last_turn, pending>>

\* play of main.py after the turn checks: [hand, table, res]; a repeated card
\* makes hand.remove raise with the cards before it played
main_play(hand, cards) ==
    LET same == [hand |-> hand, table |-> table, res |-> "ok"]
    IN  IF ~cards_are_in_hand(hand, cards) THEN [same EXCEPT !.res = "CardsNotInHand"]
        ELSE IF cards = <<>> THEN [same EXCEPT !.res = "crash"]
        ELSE LET card_objects == [j \in DOMAIN cards |-> main_card_tuple(cards[j])]
                 ranks == PlayRankCheck(table, card_objects)
             IN  IF ranks # "ok" THEN [same EXCEPT !.res = ranks]
                 ELSE LET played == PlayLoop(card_objects, 1, same)
                      IN  IF played.res = "ok" THEN played
                          ELSE [played EXCEPT !.res = "crash"]

\* defend of main.py after the turn checks: [hand, table, res]
main_defend(hand, cards) ==
    LET same == [hand |-> hand, table |-> table, res |-> "ok"]
        undefended == Undefended(table)
    IN  IF table = <<>> THEN [same EXCEPT !.res = "NothingToDefend"]
        ELSE IF AllDefended(table) THEN [same EXCEPT !.res = "AlreadyDefended"]
        ELSE IF ~cards_are_in_hand(hand, cards)
        THEN [same EXCEPT !.res = "CardsNotInHand"]
        ELSE IF Len(cards) # Len(undefended) THEN [same EXCEPT !.res = "WrongCount"]
        ELSE LET card_objects == [j \in DOMAIN cards |-> main_card_tuple(cards[j])]
             IN  IF ~(\A j \in DOMAIN undefended :
                         main_is_defence_success(trump_card, table[undefended[j]].a,
                                                 card_objects[j]))
                 THEN [same EXCEPT !.res = "InvalidDefense"]
                 ELSE LET done == DefendLoop(card_objects, undefended, 1, same)
                      IN  IF done.res = "ok" THEN done
                          ELSE [done EXCEPT !.res = "crash"]

\* play and defend of main.py: r is the outcome of the handler's body
MainMove(op, author, cards, role, r) ==
    /\ Ready
    /\ turns < MaxTurns \/ state # "PLAYING"
    /\ LET check == main_TurnCheck(author, role)
       IN  IF check # "ok" THEN Idle(op, author, check)
           ELSE /\ players' = [players EXCEPT ![author].hand = r.hand]
                /\ table' = r.table
                /\ ev' = [op |-> op, who |-> author, res |-> r.res,
                          idle |-> r.table = table,
                          cards |-> IF r.table = table THEN <<>> ELSE cards]
                /\ moves' = IF r.table = table THEN moves ELSE moves + 1
                /\ UNCHANGED <<state, deck, trump_card, trump_taken, attacker,
                               defender, finished_players, epoch, turns,
                               last_turn, call, pending>>

MainPlay(author, cards) ==
    MainMove("play", author, cards, attacker,
             IF author \in DOMAIN players THEN main_play(players[author].hand, cards)
             ELSE [hand |-> <<>>, table |-> table, res |-> "crash"])

MainDefend(author, cards) ==
    MainMove("defend", author, cards, defender,
             IF author \in DOMAIN players THEN main_defend(players[author].hand, cards)
             ELSE [hand |-> <<>>, table |-> table, res |-> "crash"])

\* the assignments of an end_turn of main.py whose outcome is r
MainAssignTurn(op, author, r) ==
    /\ players' = r.players
    /\ deck' = r.deck
    /\ table' = r.table
    /\ attacker' = r.attacker
    /\ defender' = r.defender
    /\ trump_taken' = r.trump_taken
    /\ finished_players' = r.finished_players
    /\ last_turn' = r.last_turn
    /\ turns' = turns + 1
    /\ moves' = moves + 1
    /\ trump_card' = r.trump_card
    /\ ev' = Ev(op, author, r.res, FALSE)
    /\ UNCHANGED <<state, epoch, call, pending>>

\* take of main.py
MainTake(author) ==
    /\ Ready
    /\ turns < MaxTurns \/ state # "PLAYING"
    /\ LET check == main_TurnCheck(author, defender)
       IN  IF check # "ok" THEN Idle("take", author, check)
           ELSE IF table = <<>> THEN Idle("take", author, "NothingToTake")
           ELSE IF AllDefended(table) THEN Idle("take", author, "AlreadyDefended")
           ELSE MainAssignTurn("take", author,
                    main_end_turn([players EXCEPT ![author].hand =
                                       @ \o TableCards(table)], TRUE))

\* giveup of main.py
MainGiveUp(author) ==
    /\ Ready
    /\ turns < MaxTurns \/ state # "PLAYING"
    /\ LET check == main_TurnCheck(author, attacker)
       IN  IF check # "ok" THEN Idle("giveup", author, check)
           ELSE IF GiveUpCheck(table) # "ok"
           THEN Idle("giveup", author, GiveUpCheck(table))
           ELSE MainAssignTurn("giveup", author, main_end_turn(players, FALSE))

\* the Server of main.py as constructed, with MaxEndgameTurns turns to go
InitMain ==
    /\ state = "IDLE"
    /\ players = << >>
    /\ deck = <<>>
    /\ trump_card = NoCard
    /\ trump_taken = FALSE
    /\ table = <<>>
    /\ attacker = NoPlayer
    /\ defender = NoPlayer
    /\ finished_players = {}
    /\ epoch = 0
    /\ turns = MaxTurns - MaxEndgameTurns
    /\ moves = 0
    /\ ev = Ev("init", 0, "ok", FALSE)
    /\ last_turn = NoTurn
    /\ pending = {}
    /\ call = NoCall

\* a session of main.py: the authors join one after the other, the game starts
\* when all have joined and is played with one card named per command
NextMain ==
    \/ MainSetup
    \/ \E author \in 1..EndgamePlayers :
            author = Cardinality(DOMAIN players) + 1 /\ MainJoin(author)
    \/ \E shuffle \in EndgameShuffles :
            Cardinality(DOMAIN players) = EndgamePlayers /\ MainStart(shuffle)
    \/ \E author \in 1..EndgamePlayers : \E cards \in OneToken(author) :
            MainPlay(author, cards)
    \/ \E author \in 1..EndgamePlayers : \E cards \in OneToken(author) :
            MainDefend(author, cards)
    \/ \E author \in 1..EndgamePlayers : MainTake(author)
    \/ \E author \in 1..EndgamePlayers : MainGiveUp(author)

SpecMain == InitMain /\ [][NextMain]_vars

----------------------------------------------------------------------------
(* The reaction-based variant reaction_based_main.py: the players act by   *)
(* reactions on their action menu and on a card selection message.  A Card *)
(* is compared by rank and original_suit (the display suit is a one-to-one *)
(* renaming of it), so it is read as a record of rank and original suit.   *)
(* The calls to the platform succeed; the page reactions of the selection  *)
(* message, which only change the page shown, are left out.                *)

\* cards a selection may hold
MaxSelected == 1

\* the number reactions used: the first cards of the selection display
MaxIndex == 2

\* Player.__init__ of the reaction-based variant: a message field is TRUE
\* when the message exists, undefended_indices is <<>> for None
react_Player(player_number) ==
    [number |-> player_number, hand |-> <<>>, channel |-> FALSE,
     action_menu |-> FALSE, action_state |-> "IDLE", selected_cards |-> <<>>,
     selection_message |-> FALSE, selection_action |-> "none",
     undefended_indices |-> <<>>, sorted_to_hand_map |-> <<>>]

\* the labels Server.initialize_deck gives the numbers 6..13
react_labels == << <<54>>, <<55>>, <<56>>, <<57>>, <<49, 48>>, <<74>>, <<81>>, <<75>> >>

\* the deck Server.initialize_deck builds before it shuffles
react_create_deck ==
    [k \in 1..(Len(react_labels) * Len(CARD_SUITS)) |->
        Card(react_labels[((k - 1) \div Len(CARD_SUITS)) + 1],
             CARD_SUITS[((k - 1) % Len(CARD_SUITS)) + 1])]

\* Server.initialize_deck with the shuffle's outcome given
react_initialize_deck(shuffle) ==
    LET used == {shuffle.front[i] : i \in DOMAIN shuffle.front} \cup {shuffle.last}
        rest == SelectSeq([k \in DOMAIN react_create_deck |-> k],
                          LAMBDA k : k \notin used)
        idx  == shuffle.front \o rest \o <<shuffle.last>>
    IN  [k \in DOMAIN idx |-> react_create_deck[idx[k]]]

\* hands 6s 6h 7h 8h 9h 10h and 7s 6d 7d 8d 9d 10d, trump card K of spades
ReactShuffles ==
    { [front |-> <<4, 1, 5, 9, 13, 17, 8, 2, 6, 10, 14, 18>>, last |-> 32] }

\* Server.is_defence_success of the reaction-based variant
react_is_defence_success(trump, attacking_card, defending_card) ==
    IF attacking_card.suit = trump.suit /\ defending_card.suit # trump.suit THEN FALSE
    ELSE IF attacking_card.suit # trump.suit /\ defending_card.suit = trump.suit THEN TRUE
    ELSE IF defending_card.suit = attacking_card.suit
    THEN CARD_RANKS[attacking_card.rank] < CARD_RANKS[defending_card.rank]
    ELSE FALSE

\* the sort key (original_suit, card_ranks[rank]) of the selection display
react_key_less(c1, c2) ==
    \/ StrLess(c1.suit, c2.suit)
    \/ c1.suit = c2.suit /\ CARD_RANKS[c1.rank] < CARD_RANKS[c2.rank]

\* sorted(player.hand, key=...): the hand in key order, equal keys in hand order
RECURSIVE react_sorted_hand(_)
react_sorted_hand(hand) ==
    IF hand = <<>> THEN <<>>
    ELSE LET rest == react_sorted_hand(Tail(hand))
             pos  == Cardinality({k \in DOMAIN rest : react_key_less(rest[k], Head(hand))})
         IN  SubSeq(rest, 1, pos) \o <<Head(hand)>> \o SubSeq(rest, pos + 1, Len(rest))

\* Server.display_card_selection on a Player record
display_card_selection(player, action_type, undefended_indices) ==
    [player EXCEPT
        !.sorted_to_hand_map = react_sorted_hand(player.hand),
        !.selection_message = TRUE,
        !.action_state = "SELECTING_CARDS",
        !.selected_cards = <<>>,
        !.selection_action = action_type,
        !.undefended_indices = IF action_type = "defend" THEN undefended_indices ELSE @]

\* Server.display_action_menu for the player a role names, when that player is
\* one of ps
display_action_menu(ps, role) ==
    IF IsCurrent(role, ps) THEN [ps EXCEPT ![role.author].action_menu = TRUE] ELSE ps

\* the state a reaction handler leaves: r holds the players, the table and the
\* outcome
ReactAssign(op, author, r) ==
    /\ players' = r.players
    /\ table' = r.table
    /\ ev' = Ev(op, author, r.res, r.players = players /\ r.table = table)
    /\ moves' = IF r.table = table THEN moves ELSE moves + 1
    /\ UNCHANGED <<state, deck, trump_card, trump_taken, attacker, defender,
                   finished_players, epoch, turns, last_turn, call, pending>>

\* on_message of the reaction-based variant, '/durak'
ReactSetup ==
    /\ Ready
    /\ epoch < MaxSetups
    /\ state' = "SETUP"
    /\ players' = << >>
    /\ epoch' = epoch + 1
    /\ ev' = Ev("setup", 0, "ok", FALSE)
    /\ UNCHANGED <<deck, trump_card, trump_taken, table, attacker, defender,
                   finished_players, turns, moves, last_turn, call, pending>>

\* the join reaction on the setup message (and '/join')
ReactJoin(author) ==
    /\ Ready
    /\ players' = IF state = "SETUP" /\ author \notin DOMAIN players
                  THEN [a \in DOMAIN players \cup {author} |->
                           IF a \in DOMAIN players THEN players[a]
                           ELSE react_Player(Cardinality(DOMAIN players) + 1)]
                  ELSE players
    /\ ev' = Ev("join", author,
                IF state # "SETUP" THEN "Ignored"
                ELSE IF author \in DOMAIN players THEN "AlreadyJoined" ELSE "ok",
                state # "SETUP" \/ author \in DOMAIN players)
    /\ UNCHANGED <<state, deck, trump_card, trump_taken, table, attacker, defender,
                   finished_players, epoch, turns, moves, last_turn, call, pending>>

\* start_game_internal for players the deck deals six cards each
ReactStart(shuffle) ==
    /\ Ready
    /\ 6 * Cardinality(DOMAIN players) <= Len(react_create_deck)
    /\ IF state # "SETUP" \/ Cardinality(DOMAIN players) < 2
       THEN /\ ev' = Ev("start", 0, "NotEnoughPlayers", TRUE)
            /\ UNCHANGED <<state, players, deck, trump_card, trump_taken, table, attacker,
                           defender, finished_players, epoch, turns, moves, last_turn,
                           call, pending>>
       ELSE LET new_deck == react_initialize_deck(shuffle)
                trump == new_deck[Len(new_deck)]
                order == players_by_number(players)
                dealt == [a \in DOMAIN players |->
                            [players[a] EXCEPT
                                !.channel = TRUE,
                                !.hand = SubSeq(new_deck, 6 * IndexOf(order, a) - 5,
                                                6 * IndexOf(order, a))]]
                first == main_first_attacker(dealt, trump)
            IN  /\ state' = "PLAYING"
                /\ trump_card' = trump
                /\ players' = display_action_menu(dealt, first)
                /\ deck' = SubSeq(new_deck, 6 * Len(order) + 1, Len(new_deck))
                /\ attacker' = first
                /\ defender' = Ref(order[(IndexOf(order, first.author) % Len(order)) + 1])
                /\ ev' = Ev("start", 0, "ok", FALSE)
                /\ UNCHANGED <<trump_taken, table, finished_players, epoch, turns,
                               moves, last_turn, call, pending>>

\* the play or defend reaction on the author's action menu
ReactOpen(author, action_type) ==
    /\ Ready
    /\ turns < MaxTurns
    /\ LET same == [players |-> players, table |-> table, res |-> "Ignored"]
           role == IF action_type = "play" THEN attacker ELSE defender
           undefended == Undefended(table)
       IN  ReactAssign(action_type, author,
               IF author \notin DOMAIN players \/ ~players[author].action_menu
                  \/ role # Ref(author)
               THEN same
               ELSE IF action_type = "defend" /\ undefended = <<>>
               THEN [same EXCEPT !.res = "NothingToDefend"]
               ELSE [same EXCEPT
                        !.players[author] =
                            display_card_selection(@, action_type, undefended),
                        !.res = "ok"])

\* a number reaction on the author's selection message
ReactToggle(author, index) ==
    /\ Ready
    /\ turns < MaxTurns
    /\ LET same == [players |-> players, table |-> table, res |-> "Ignored"]
       IN  ReactAssign("toggle", author,
               IF author \notin DOMAIN players \/ ~players[author].selection_message
                  \/ players[author].action_state # "SELECTING_CARDS"
                  \/ index \notin DOMAIN players[author].sorted_to_hand_map
               THEN same
               ELSE LET card == players[author].sorted_to_hand_map[index]
                    IN  [same EXCEPT
                            !.players[author].selected_cards =
                                IF Has(@, card) THEN ListRemove(@, card)
                                ELSE Append(@, card),
                            !.players[author].sorted_to_hand_map =
                                react_sorted_hand(players[author].hand),
                            !.res = "ok"])

\* process_play_cards for the player of author: [players, table, res]
process_play_cards(author) ==
    LET player == players[author]
        same == [players |-> players, table |-> table, res |-> "ok"]
        ranks == PlayRankCheck(table, player.selected_cards)
    IN  IF ranks # "ok" THEN [same EXCEPT !.res = ranks]
        ELSE LET played == PlayLoop(player.selected_cards, 1,
                               [hand |-> player.hand, table |-> table, res |-> "ok"])
             IN  IF played.res # "ok" \/ defender = NoPlayer
                 THEN [players |-> [players EXCEPT ![author].hand = played.hand],
                       table |-> played.table, res |-> "crash"]
                 ELSE [players |->
                          display_action_menu(
                              [players EXCEPT ![author].hand = played.hand,
                                              ![author].selected_cards = <<>>],
                              defender),
                       table |-> played.table, res |-> "ok"]

\* process_defend_cards for the player of author: [players, table, res]; the
\* pairs defended are those of player.undefended_indices
process_defend_cards(author) ==
    LET player == players[author]
        same == [players |-> players, table |-> table, res |-> "ok"]
        undefended == player.undefended_indices
    IN  IF Len(player.selected_cards) # Len(undefended)
        THEN [same EXCEPT !.res = "WrongCount"]
        ELSE IF \E i \in DOMAIN undefended : undefended[i] \notin DOMAIN table
        THEN [same EXCEPT !.res = "crash"]
        ELSE IF ~(\A i \in DOMAIN undefended :
                     react_is_defence_success(trump_card, table[undefended[i]].a,
                                              player.selected_cards[i]))
        THEN [same EXCEPT !.res = "InvalidDefense"]
        ELSE LET done == DefendLoop(player.selected_cards, undefended, 1,
                             [hand |-> player.hand, table |-> table, res |-> "ok"])
             IN  IF done.res # "ok"
                 THEN [players |-> [players EXCEPT ![author].hand = done.hand],
                       table |-> done.table, res |-> "crash"]
                 ELSE [players |->
                          LET ps == [players EXCEPT ![author].hand = done.hand,
                                                    ![author].selected_cards = <<>>,
                                                    ![author].undefended_indices = <<>>]
                          IN  IF AllDefended(done.table)
                              THEN display_action_menu(ps, attacker) ELSE ps,
                       table |-> done.table, res |-> "ok"]

\* the confirm reaction on the author's selection message
ReactConfirm(author) ==
    /\ Ready
    /\ turns < MaxTurns
    /\ LET same == [players |-> players, table |-> table, res |-> "Ignored"]
       IN  IF author \notin DOMAIN players \/ ~players[author].selection_message
              \/ players[author].action_state # "SELECTING_CARDS"
           THEN ReactAssign("confirm", author, same)
           ELSE IF players[author].selected_cards = <<>>
           THEN ReactAssign("confirm", author, [same EXCEPT !.res = "NoCards"])
           ELSE LET action == players[author].selection_action
                    r == IF action = "play" THEN process_play_cards(author)
                         ELSE process_defend_cards(author)
                IN  ReactAssign("confirm_" \o action, author,
                        IF r.res = "crash" THEN r
                        ELSE [r EXCEPT !.players[author].selection_message = FALSE,
                                       !.players[author].action_state = "IDLE"])

\* the cancel reaction on the author's selection message
ReactCancel(author) ==
    /\ Ready
    /\ turns < MaxTurns
    /\ LET same == [players |-> players, table |-> table, res |-> "Ignored"]
       IN  ReactAssign("cancel", author,
               IF author \notin DOMAIN players \/ ~players[author].selection_message
                  \/ players[author].action_state # "SELECTING_CARDS"
               THEN same
               ELSE [same EXCEPT !.players[author].selection_message = FALSE,
                                 !.players[author].selected_cards = <<>>,
                                 !.players[author].action_state = "IDLE",
                                 !.players[author].action_menu = TRUE,
                                 !.res = "ok"])

\* end_turn of the reaction-based variant on the players ps: cleanup_messages
\* takes every action menu away, the new attacker is shown one
react_end_turn(ps, turn_taken) ==
    LET r == end_turn([a \in DOMAIN ps |-> [ps[a] EXCEPT !.action_menu = FALSE]],
                      turn_taken)
    IN  IF r.res = "ok" /\ r.state = "PLAYING"
        THEN [r EXCEPT !.players = display_action_menu(@, r.attacker)]
        ELSE r

\* the take or give-up reaction on the author's action menu
ReactEndTurn(op, author) ==
    /\ Ready
    /\ turns < MaxTurns
    /\ LET role == IF op = "take" THEN defender ELSE attacker
       IN  IF author \notin DOMAIN players \/ ~players[author].action_menu
              \/ role # Ref(author)
           THEN Idle(op, author, "Ignored")
           ELSE IF table = <<>>
           THEN Idle(op, author,
                     IF op = "take" THEN "NothingToTake" ELSE "NothingOnTable")
           ELSE IF (op = "take") = AllDefended(table)
           THEN Idle(op, author,
                     IF op = "take" THEN "AlreadyDefended" ELSE "AttackNotFullyDefended")
           ELSE /\ AssignTurn(op, author,
                     react_end_turn(
                         IF op = "take"
                         THEN [players EXCEPT ![author].hand = @ \o TableCards(table)]
                         ELSE players,
                         op = "take"))
                /\ UNCHANGED pending

\* a game of two of the reaction-based variant, the authors joining one after
\* the other
NextReact ==
    \/ players = << >> /\ ReactSetup
    \/ \E author \in 1..2 :
            author = Cardinality(DOMAIN players) + 1 /\ ReactJoin(author)
    \/ \E shuffle \in ReactShuffles :
            state = "SETUP" /\ Cardinality(DOMAIN players) = 2 /\ ReactStart(shuffle)
    \/ \E author \in 1..2 : author = attacker.author /\ ReactOpen(author, "play")
    \/ \E author \in 1..2 : author = defender.author /\ ReactOpen(author, "defend")
    \/ \E author \in 1..2 : \E index \in 1..MaxIndex :
            /\ author \in DOMAIN players
            /\ Len(players[author].selected_cards) < MaxSelected
            /\ ReactToggle(author, index)
    \/ \E author \in 1..2 : ReactConfirm(author)
    \/ \E author \in 1..2 : ReactCancel(author)
    \/ \E author \in 1..2 : author = defender.author /\ ReactEndTurn("take", author)
    \/ \E author \in 1..2 : author = attacker.author /\ ReactEndTurn("giveup", author)

SpecReact == Init /\ [][NextReact]_vars

----------------------------------------------------------------------------
(* The rules engine on its own: one call per behaviour, the arguments drawn *)
(* in the initial state.                                                   *)

\* longest table given to the rank check
MaxRuleTable == 1

\* every card CARD_RANKS and CARD_SUITS can name
AllCards ==
    {Card(r, CARD_SUITS[i]) : r \in DOMAIN CARD_RANKS, i \in DOMAIN CARD_SUITS}

\* the cards given to the rank check: ranks 6, 7, 8 in hearts and spades
RuleCards == {c \in AllCards : CARD_RANKS[c.rank] <= 2 /\ c.suit[1] \in {9829, 9824}}

RuleTables ==
    UNION {[1..n -> [a : RuleCards, d : RuleCards \cup {NoCard}]] : n \in 0..MaxRuleTable}

RuleCardLists == UNION {[1..n -> RuleCards] : n \in 1..MaxTokens}

InitRules ==
    /\ state = "SETUP"
    /\ players = << >>
    /\ deck = <<>>
    /\ trump_card = NoCard
    /\ trump_taken = FALSE
    /\ table = <<>>
    /\ attacker = NoPlayer
    /\ defender = NoPlayer
    /\ finished_players = {}
    /\ epoch = 0
    /\ turns = 0
    /\ moves = 0
    /\ ev = Ev("init", 0, "ok", FALSE)
    /\ last_turn = NoTurn
    /\ pending = {}
    /\ \/ \E t \in {c \in AllCards : c.rank = <<54>>}, a \in AllCards, d \in AllCards :
             call = [NoCall EXCEPT !.fn = "is_defence_success",
                                   !.trump = t, !.a = a, !.d = d]
       \/ \E tbl \in RuleTables, cards \in RuleCardLists :
             call = [NoCall EXCEPT !.fn = "play_rank_check", !.tbl = tbl, !.cards = cards]

CallDefence ==
    /\ call.fn = "is_defence_success" /\ ~call.done
    /\ call' = [call EXCEPT !.done = TRUE,
                            !.out = is_defence_success(call.trump, call.a, call.d)]
    /\ UNCHANGED game_vars

CallRankCheck ==
    /\ call.fn = "play_rank_check" /\ ~call.done
    /\ call' = [call EXCEPT !.done = TRUE,
                            !.out = (PlayRankCheck(call.tbl, call.cards) = "ok")]
    /\ UNCHANGED game_vars

NextRules == CallDefence \/ CallRankCheck

SpecRules == InitRules /\ [][NextRules]_vars

----------------------------------------------------------------------------
(* Chains of defences: the defence check called on the three pairs of      *)
(* three cards, under each trump suit.                                     *)

\* one trump card of each suit (the check reads the trump card's suit only)
TrumpCards == {Card(<<54>>, CARD_SUITS[i]) : i \in DOMAIN CARD_SUITS}

InitChain ==
    /\ state = "SETUP"
    /\ players = << >>
    /\ deck = <<>>
    /\ trump_card = NoCard
    /\ trump_taken = FALSE
    /\ table = <<>>
    /\ attacker = NoPlayer
    /\ defender = NoPlayer
    /\ finished_players = {}
    /\ epoch = 0
    /\ turns = 0
    /\ moves = 0
    /\ ev = Ev("init", 0, "ok", FALSE)
    /\ last_turn = NoTurn
    /\ pending = {}
    /\ \E t \in TrumpCards, x \in AllCards, y \in AllCards, z \in AllCards :
          call = [fn |-> "defence_chain", trump |-> t, x |-> x, y |-> y, z |-> z,
                  done |-> FALSE,
                  out |-> [yx |-> FALSE, zy |-> FALSE, zx |-> FALSE]]

\* y against x, z against y and z against x
CallChain ==
    /\ call.fn = "defence_chain" /\ ~call.done
    /\ call' = [call EXCEPT
                    !.done = TRUE,
                    !.out = [yx |-> is_defence_success(call.trump, call.x, call.y),
                             zy |-> is_defence_success(call.trump, call.y, call.z),
                             zx |-> is_defence_success(call.trump, call.x, call.z)]]
    /\ UNCHANGED game_vars

NextChain == CallChain

SpecChain == InitChain /\ [][NextChain]_vars

----------------------------------------------------------------------------
(* refill_hands on its own: one call per behaviour, on hands and a deck    *)
(* cut from the unshuffled deck.                                           *)

\* largest hand given to refill_hands
MaxRefillHand == 6
\* largest deck given to refill_hands
MaxRefillDeck == 3

\* n cards of the unshuffled deck after the first `from`
CutCards(from, n) == SubSeq(create_deck, from + 1, from + n)

\* players 1..n holding sizes[a] cards each, all cards different
RefillPlayers(sizes) ==
    [a \in DOMAIN sizes |->
        [number |-> a, channel |-> TRUE,
         hand |-> CutCards((a - 1) * MaxRefillHand, sizes[a])]]

InitRefill ==
    /\ state = "PLAYING"
    /\ players = << >>
    /\ deck = <<>>
    /\ trump_card = NoCard
    /\ trump_taken = FALSE
    /\ table = <<>>
    /\ attacker = NoPlayer
    /\ defender = NoPlayer
    /\ finished_players = {}
    /\ epoch = 0
    /\ turns = 0
    /\ moves = 0
    /\ ev = Ev("init", 0, "ok", FALSE)
    /\ last_turn = NoTurn
    /\ pending = {}
    /\ \E n \in 2..NumAuthors : \E sizes \in [1..n -> 0..MaxRefillHand] :
       \E k \in 0..MaxRefillDeck : \E atk \in 1..n :
          call = [fn |-> "refill_hands", ps |-> RefillPlayers(sizes),
                  dk |-> CutCards(NumAuthors * MaxRefillHand, k),
                  atk |-> Ref(atk), done |-> FALSE,
                  out |-> [players |-> RefillPlayers(sizes),
                           deck |-> CutCards(NumAuthors * MaxRefillHand, k),
                           trump_taken |-> FALSE, finished_players |-> {},
                           emptied |-> {}]]

CallRefill ==
    /\ call.fn = "refill_hands" /\ ~call.done
    /\ call' = [call EXCEPT !.done = TRUE,
                            !.out = refill_hands(call.ps, call.dk, call.atk,
                                                 create_deck[Len(create_deck)],
                                                 FALSE, {})]
    /\ UNCHANGED game_vars

NextRefill == CallRefill

SpecRefill == InitRefill /\ [][NextRefill]_vars

----------------------------------------------------------------------------
(* The elimination step of refill_hands on its own: the platform calls it  *)
(* makes for each eliminated player, with one of them allowed to raise.    *)

\* the platform call of a player's elimination that raises, if any
ReleaseFaults == {"none", "send", "channel_delete", "role_delete"}

\* the calls the second loop makes for one eliminated player, as counts: the
\* farewell message and the channel's deletion share one try block, so the
\* deletion is reached only when the message was sent; the role is looked up
\* and deleted in a try block of its own
release(fault) ==
    [send           |-> 1,
     channel_delete |-> IF fault = "send" THEN 0 ELSE 1,
     role_delete    |-> 1]

\* the elimination of refill_hands with the deck empty: who is removed and
\* the calls made for each of them
eliminate(ps, atk, faults) ==
    LET filled == refill_hands(ps, <<>>, atk, create_deck[Len(create_deck)], TRUE, {})
    IN  [players |-> filled.players,
         finished_players |-> filled.finished_players,
         emptied |-> filled.emptied,
         calls |-> [a \in filled.emptied |-> release(faults[a])]]

InitRelease ==
    /\ state = "PLAYING"
    /\ players = << >>
    /\ deck = <<>>
    /\ trump_card = NoCard
    /\ trump_taken = FALSE
    /\ table = <<>>
    /\ attacker = NoPlayer
    /\ defender = NoPlayer
    /\ finished_players = {}
    /\ epoch = 0
    /\ turns = 0
    /\ moves = 0
    /\ ev = Ev("init", 0, "ok", FALSE)
    /\ last_turn = NoTurn
    /\ pending = {}
    /\ \E n \in 2..NumAuthors : \E sizes \in [1..n -> {0, 1}] :
       \E faults \in [1..n -> ReleaseFaults] :
          call = [fn |-> "eliminate", ps |-> RefillPlayers(sizes), atk |-> Ref(1),
                  faults |-> faults, done |-> FALSE,
                  out |-> [players |-> RefillPlayers(sizes), finished_players |-> {},
                           emptied |-> {}, calls |-> << >>]]

CallRelease ==
    /\ call.fn = "eliminate" /\ ~call.done
    /\ call' = [call EXCEPT !.done = TRUE,
                            !.out = eliminate(call.ps, call.atk, call.faults)]
    /\ UNCHANGED game_vars

NextRelease == CallRelease

SpecRelease == InitRelease /\ [][NextRelease]_vars

----------------------------------------------------------------------------
(* Several guilds.  Application.servers maps a guild's id to its Server,   *)
(* and every handler works on the Server that get_server returns for the   *)
(* guild of its message.  The dict, the lists and the set of a Server are  *)
(* mutable objects, kept here in a heap of cells so that two Servers can   *)
(* be seen to share one: a Server's fields players, deck, table and        *)
(* finished_players hold the addresses of their cells.  An object that no  *)
(* field refers to any more is freed, and its cell is the one the next     *)
(* object gets.  The same authors write in every guild.                    *)

\* guilds with a Server
NumGuilds == 2

Guilds == 1..NumGuilds

\* a Server whose containers are the same objects for every Server (the cells
\* of the first one), as class attributes would be
ServerInit_shared(h) ==
    [server |-> [state |-> "SETUP", players |-> 1, deck |-> 2, table |-> 3,
                 finished_players |-> 4, trump_card |-> NoCard,
                 trump_taken |-> FALSE, attacker |-> NoPlayer, defender |-> NoPlayer],
     heap |-> IF h = <<>> THEN << << >>, <<>>, <<>>, {} >> ELSE h]

\* Server.__init__: a new dict, two new lists and a new set
ServerInit(h) ==
    [server |-> [state |-> "SETUP", players |-> Len(h) + 1, deck |-> Len(h) + 2,
                 table |-> Len(h) + 3, finished_players |-> Len(h) + 4,
                 trump_card |-> NoCard, trump_taken |-> FALSE,
                 attacker |-> NoPlayer, defender |-> NoPlayer],
     heap |-> h \o << << >>, <<>>, <<>>, {} >>]

\* Application.get_server: the guild's Server, created at the first reference
get_server(app, guild) ==
    IF guild \in DOMAIN app.servers THEN app
    ELSE LET made == ServerInit(app.heap)
         IN  [servers |-> app.servers @@ (guild :> made.server), heap |-> made.heap]

\* the fields of the Servers that refer to the cell at an address
Refs(app, addr) ==
    {<<g, f>> \in (DOMAIN app.servers) \X {"players", "deck", "table", "finished_players"} :
        app.servers[g][f] = addr}

\* a new object with the given value for a field whose old object is at addr:
\* where it is put, and the heap with it
Rebind(app, addr, value) ==
    IF Cardinality(Refs(app, addr)) = 1
    THEN [at |-> addr, heap |-> [app.heap EXCEPT ![addr] = value]]
    ELSE [at |-> Len(app.heap) + 1, heap |-> Append(app.heap, value)]

\* on_message, '/durak', in a guild
durak_in(app, guild) ==
    LET found == get_server(app, guild)
        server == found.servers[guild]
        dict == Rebind(found, server.players, << >>)
    IN  [servers |-> [found.servers EXCEPT
                         ![guild] = [server EXCEPT !.state = "SETUP",
                                                   !.players = dict.at]],
         heap |-> dict.heap]

\* on_message, '/join', in a guild
join_in(app, guild, author) ==
    LET found == get_server(app, guild)
        server == found.servers[guild]
        ps == found.heap[server.players]
    IN  IF server.state = "SETUP" /\ author \notin DOMAIN ps
        THEN [found EXCEPT !.heap[server.players] = add_player(ps, author)]
        ELSE found

\* start_game in a guild, no role or channel refused
start_in(app, guild, shuffle) ==
    LET found == get_server(app, guild)
        server == found.servers[guild]
        ps == found.heap[server.players]
    IN  IF server.state # "SETUP" \/ Cardinality(DOMAIN ps) < 2 THEN found
        ELSE LET new_deck == initialize_deck(shuffle)
                 trump == new_deck[Len(new_deck)]
                 dealt == DealLoop(players_by_number(ps), 1, 0, trump,
                             [players |-> ps, deck |-> new_deck, attacker |-> NoPlayer,
                              lowest_trump |-> NoRank, res |-> "ok"])
                 atk == IF dealt.res = "ok" THEN InitialAttacker(dealt)
                        ELSE dealt.attacker
                 list == Rebind(found, server.deck, dealt.deck)
             IN  [servers |->
                      [found.servers EXCEPT
                          ![guild] = [server EXCEPT
                              !.state = "PLAYING",
                              !.deck = list.at,
                              !.trump_card = trump,
                              !.attacker = atk,
                              !.defender = IF dealt.res = "ok"
                                           THEN InitialDefender(dealt.players, atk)
                                           ELSE server.defender]],
                  heap |-> [list.heap EXCEPT ![server.players] = dealt.players]]

\* /play in a guild: the decorators' checks, the handler's, and the play
play_in(app, guild, author, cards) ==
    LET found == get_server(app, guild)
        server == found.servers[guild]
        ps == found.heap[server.players]
    IN  IF server.state # "PLAYING" \/ server.attacker = NoPlayer THEN found
        ELSE IF author # server.attacker.author \/ author \notin DOMAIN ps THEN found
        ELSE IF ~ps[author].channel THEN found
        ELSE LET r == play_on(found.heap[server.table], server.defender,
                              ps[author].hand, cards)
                 put == [found.heap EXCEPT ![server.table] = r.table]
             IN  [found EXCEPT
                     !.heap = [put EXCEPT ![server.players] =
                                  [put[server.players] EXCEPT ![author].hand = r.hand]]]

\* the session of a guild as its handlers see it
Session(app, guild) ==
    LET server == app.servers[guild]
    IN  [state |-> server.state,
         players |-> app.heap[server.players],
         deck |-> app.heap[server.deck],
         table |-> app.heap[server.table],
         finished_players |-> app.heap[server.finished_players],
         trump_card |-> server.trump_card,
         trump_taken |-> server.trump_taken,
         attacker |-> server.attacker,
         defender |-> server.defender]

\* the cards named in these sessions: the 6 of spades and the 7 of diamonds,
\* both in the hand of the first attacker after the first shuffle
AppTokens == {<<CardStr(Card(<<54>>, CARD_SUITS[4]))>>,
              <<CardStr(Card(<<55>>, CARD_SUITS[2]))>>}

\* the shuffle that deals to two players
AppShuffles == {shuffle \in ShuffleInputs : Len(shuffle.front) = 2 * 6}

InitServers ==
    /\ state = "SETUP"
    /\ players = << >>
    /\ deck = <<>>
    /\ trump_card = NoCard
    /\ trump_taken = FALSE
    /\ table = <<>>
    /\ attacker = NoPlayer
    /\ defender = NoPlayer
    /\ finished_players = {}
    /\ epoch = 0
    /\ turns = 0
    /\ moves = 0
    /\ ev = Ev("init", 0, "ok", FALSE)
    /\ last_turn = NoTurn
    /\ pending = {}
    /\ call = [fn |-> "servers", app |-> [servers |-> << >>, heap |-> <<>>],
               last |-> [op |-> "init", guild |-> 0], setups |-> 0]

\* a handler ran in a guild and left the application as app
Handled(op, guild, app) ==
    /\ call.fn = "servers"
    /\ call' = [call EXCEPT !.app = app, !.last = [op |-> op, guild |-> guild]]
    /\ UNCHANGED game_vars

\* at most MaxSetups messages '/durak' are sent, in all the guilds together
AppDurak(guild) ==
    /\ call.fn = "servers" /\ call.setups < MaxSetups
    /\ call' = [call EXCEPT !.app = durak_in(call.app, guild),
                            !.last = [op |-> "durak", guild |-> guild],
                            !.setups = @ + 1]
    /\ UNCHANGED game_vars

AppJoin(guild, author) == Handled("join", guild, join_in(call.app, guild, author))

AppStart(guild, shuffle) ==
    Handled("start", guild, start_in(call.app, guild, shuffle))

AppPlay(guild, author, cards) ==
    Handled("play", guild, play_in(call.app, guild, author, cards))

NextServers ==
    \/ \E guild \in Guilds : AppDurak(guild)
    \/ \E guild \in Guilds, author \in 1..2 : AppJoin(guild, author)
    \/ \E guild \in Guilds, shuffle \in AppShuffles : AppStart(guild, shuffle)
    \/ \E guild \in Guilds, author \in 1..2, cards \in AppTokens :
           AppPlay(guild, author, cards)

SpecServers == InitServers /\ [][NextServers]_vars

----------------------------------------------------------------------------
(* Properties.                                                             *)

\* the rank order 6 < 7 < 8 < 9 < 10 < J < Q < K < A
RankOrder == << <<54>>, <<55>>, <<56>>, <<57>>, <<49, 48>>, <<74>>, <<81>>, <<75>>, <<65>> >>

RankPos(rank) == CHOOSE i \in DOMAIN RankOrder : RankOrder[i] = rank

\* the canonical deck: the nine ranks in the four suits
CanonicalDeck == {Card(RankOrder[i], CARD_SUITS[j]) : i \in DOMAIN RankOrder,
                                                      j \in DOMAIN CARD_SUITS}

\* every hand, one after the other
RECURSIVE HandsOf(_, _)
HandsOf(ps, order) ==
    IF order = <<>> THEN <<>> ELSE ps[Head(order)].hand \o HandsOf(ps, Tail(order))

\* all the cards of the session: deck, hands, table
CardsInPlay == deck \o HandsOf(players, players_by_number(players)) \o TableCards(table)

\* the last command was a take or giveup whose end_turn ran to its end
TurnEnded == ev.op \in {"take", "giveup"} /\ ev.res = "ok"

\* the successor of an author in a rotation, wrapping
After(rotation, author) == rotation[(IndexOf(rotation, author) % Len(rotation)) + 1]

\* C1: in a started session the deck, the hands and the table together hold
\* exactly the 36 cards of the canonical deck, each once
C1_DeckPartition ==
    state # "SETUP" =>
        /\ Len(CardsInPlay) = 36
        /\ {CardsInPlay[i] : i \in DOMAIN CardsInPlay} = CanonicalDeck

\* C2: the defence check accepts d against a under trump suit T exactly when
\* d is a trump and a is not, or d has a's suit and a higher rank
C2_DefenceRelation ==
    (call.fn = "is_defence_success" /\ call.done) =>
        (call.out <=>
            \/ call.d.suit = call.trump.suit /\ call.a.suit # call.trump.suit
            \/ call.d.suit = call.a.suit /\ RankPos(call.d.rank) > RankPos(call.a.rank))

\* C2 witness: a lower trump was offered against a higher card of another suit
C2_Witness ==
    /\ call.fn = "is_defence_success" /\ call.done /\ call.out
    /\ call.d.suit = call.trump.suit /\ call.a.suit # call.trump.suit
    /\ RankPos(call.d.rank) < RankPos(call.a.rank)

\* C3: the rank rules of an attack pass exactly when the cards share one rank
\* and, on a non-empty table, that rank is the rank of an attack or defence card
\* on the table
C3_RankRules ==
    (call.fn = "play_rank_check" /\ call.done) =>
        (call.out <=>
            /\ \A i, j \in DOMAIN call.cards : call.cards[i].rank = call.cards[j].rank
            /\ call.tbl # <<>> =>
                   \E k \in DOMAIN call.tbl :
                       \/ call.tbl[k].a.rank = call.cards[1].rank
                       \/ call.tbl[k].d # NoCard /\ call.tbl[k].d.rank = call.cards[1].rank)

\* C3 witness: an attack passed on the rank of a defence card only
C3_Witness ==
    /\ call.fn = "play_rank_check" /\ call.done /\ call.out
    /\ call.tbl # <<>>
    /\ \A k \in DOMAIN call.tbl : call.tbl[k].a.rank # call.cards[1].rank

\* C4: a defend rejected for a wrong count or an invalid pairing leaves the
\* table and the hands as they were
C4_RejectedDefendKeeps ==
    [][(ev'.op = "defend" /\ ev'.res \in {"WrongCount", "InvalidDefense"})
           => (table' = table /\ players' = players)]_vars

\* C4 witness: a defend naming the right number of cards of the hand was
\* rejected for an invalid pairing
C4_Witness == ev.op = "defend" /\ ev.res = "InvalidDefense" /\ ~AllDefended(table)

\* C5: every play or defend that ends in an error leaves the table and the
\* hands as they were
C5_AllOrNothing ==
    [][(ev'.op \in {"play", "defend"} /\ ev'.res # "ok")
           => (table' = table /\ players' = players)]_vars

\* C6: after start and after every end_turn that leaves the game PLAYING, the
\* attacker and the defender are two different current players and the defender
\* is the next remaining player after the attacker
C6_RolesValid ==
    (state = "PLAYING" /\ (TurnEnded \/ (ev.op = "start" /\ ev.res = "ok"))) =>
        /\ IsCurrent(attacker, players)
        /\ IsCurrent(defender, players)
        /\ attacker # defender
        /\ defender.author = After(players_by_number(players), attacker.author)

\* C7: the roles end_turn assigns are those of the rotation it found, the old
\* defender and turn_taken: after a take the player after the old defender
\* attacks, otherwise the old defender; the player after the new attacker defends
C7_Rotation ==
    TurnEnded =>
        /\ attacker.author =
               IF last_turn.turn_taken
               THEN After(last_turn.rotation, last_turn.old_defender)
               ELSE last_turn.old_defender
        /\ defender.author = After(last_turn.rotation, attacker.author)

\* C7 witness: a take in a game of three passed the attack on
C7_Witness ==
    /\ TurnEnded /\ last_turn.turn_taken /\ Len(last_turn.rotation) = 3
    /\ attacker.author # last_turn.old_defender

\* the trump cards of the hands, and the holder of the lowest of them by rank
TrumpHolders ==
    {a \in DOMAIN players :
        \E i \in DOMAIN players[a].hand : players[a].hand[i].suit = trump_card.suit}

LowestTrumpHolder ==
    CHOOSE a \in TrumpHolders :
        \E i \in DOMAIN players[a].hand :
            /\ players[a].hand[i].suit = trump_card.suit
            /\ \A b \in TrumpHolders : \A j \in DOMAIN players[b].hand :
                   players[b].hand[j].suit = trump_card.suit =>
                       RankPos(players[a].hand[i].rank) <= RankPos(players[b].hand[j].rank)

\* C8: after start the attacker holds the lowest trump of the starting hands by
\* rank, and is the player numbered 1 when no hand holds a trump
C8_FirstAttacker ==
    (ev.op = "start" /\ ev.res = "ok") =>
        attacker.author = IF TrumpHolders = {}
                          THEN players_by_number(players)[1]
                          ELSE LowestTrumpHolder

\* C9: an end_turn that leaves one player finishes the session and reports that
\* player as the Durak, and a session is FINISHED only by such an end_turn
C9_WinCondition ==
    /\ (TurnEnded /\ Cardinality(DOMAIN players) = 1) =>
           (state = "FINISHED" /\ last_turn.durak \in DOMAIN players)
    /\ state = "FINISHED" =>
           (Cardinality(DOMAIN players) = 1 /\ last_turn.durak \in DOMAIN players)

\* C9 witness: a game of two ended with the defender as the Durak
C9_Witness ==
    /\ TurnEnded /\ state = "FINISHED"
    /\ last_turn.durak = last_turn.old_defender
    /\ last_turn.emptied # {}

\* C10: after every end_turn each player left holds a card, and each player
\* whose hand was empty after the refill is out of the players and among the
\* finished players
C10_Elimination ==
    TurnEnded =>
        /\ \A a \in DOMAIN players : Len(players[a].hand) >= 1
        /\ last_turn.emptied \cap DOMAIN players = {}
        /\ last_turn.emptied \subseteq finished_players

\* C10 witness: an end_turn removed a player while the deck still held cards
C10_Witness == TurnEnded /\ last_turn.emptied # {} /\ deck # <<>>

\* the order in which refill_hands visits the players: by number, from the attacker
RefillOrder(ps, atk) ==
    LET order == players_by_number(ps)
        s     == IndexOf(order, atk.author)
    IN  [i \in 1..Len(order) |-> order[((s + i - 2) % Len(order)) + 1]]

\* cards an author holds, none when no longer a player
HandLen(ps, a) == IF a \in DOMAIN ps THEN Len(ps[a].hand) ELSE 0

\* C11: the refill visits the players in number order from the new attacker and
\* fills each hand to 6 before the next one draws: a player who had cards and ends
\* below 6 leaves the deck empty and no later player has drawn; nobody draws past
\* 6, and the cards drawn are the front of the deck
C11_RefillOrder ==
    call.fn = "refill_hands" /\ call.done =>
        LET ro == RefillOrder(call.ps, call.atk)
            before(a) == Len(call.ps[a].hand)
            after(a)  == HandLen(call.out.players, a)
        IN  /\ \A i \in DOMAIN ro :
                   before(ro[i]) > 0 /\ after(ro[i]) < 6 =>
                       /\ call.out.deck = <<>>
                       /\ \A j \in DOMAIN ro : j > i => after(ro[j]) = before(ro[j])
            /\ \A a \in DOMAIN call.ps :
                   /\ after(a) > before(a) => after(a) <= 6
                   /\ after(a) >= before(a) \/ a \in call.out.emptied
            /\ \E n \in 0..Len(call.dk) :
                   call.out.deck = SubSeq(call.dk, n + 1, Len(call.dk))

\* a refill that ran out of cards: the attacker filled up, the next player drew
\* the rest and stayed below 6, the third needed cards and got none
C11_Witness ==
    /\ call.fn = "refill_hands" /\ call.done
    /\ Len(call.dk) > 0 /\ call.out.deck = <<>>
    /\ LET ro == RefillOrder(call.ps, call.atk)
       IN  /\ Len(ro) = 3 /\ ro[1] # 1
           /\ Len(call.ps[ro[1]].hand) \in 1..5
           /\ HandLen(call.out.players, ro[1]) = 6
           /\ HandLen(call.out.players, ro[2]) > Len(call.ps[ro[2]].hand)
           /\ HandLen(call.out.players, ro[2]) < 6
           /\ Len(call.ps[ro[3]].hand) \in 1..5
           /\ HandLen(call.out.players, ro[3]) = Len(call.ps[ro[3]].hand)

\* the hand an author holds when take or giveup calls end_turn (a step's old state)
PreHand(a) ==
    IF ev'.op = "take" /\ a = ev'.who THEN players[a].hand \o TableCards(table)
    ELSE players[a].hand

\* cards the players in S gained over the step
RECURSIVE Gained(_)
Gained(S) ==
    IF S = {} THEN 0
    ELSE LET a == CHOOSE x \in S : TRUE
         IN  (Len(players'[a].hand) - Len(PreHand(a))) + Gained(S \ {a})

\* C12: a player whose hand is empty when end_turn refills draws nothing and is
\* out of the players and among the finished players after that end_turn,
\* whatever the deck holds: every card that left the deck is in a remaining hand
C12_EmptyHandOut ==
    [][(ev'.op \in {"take", "giveup"} /\ ev'.res = "ok" /\ ~ev'.idle) =>
           /\ \A a \in DOMAIN players :
                  PreHand(a) = <<>> =>
                      a \notin DOMAIN players' /\ a \in finished_players'
           /\ Len(deck) - Len(deck') = Gained(DOMAIN players')]_vars

\* C12 witness: the defender took, and a player who had played the last card
\* is out although at least a full hand of cards is left in the deck
C12_Witness ==
    /\ TurnEnded /\ ev.op = "take"
    /\ Len(deck) >= 6
    /\ \E a \in last_turn.emptied : a \notin DOMAIN players /\ a \in finished_players

\* C13: /durak leaves the session in SETUP with no players and an empty table,
\* and a game started afterwards begins with an empty table
C13_SetupClears ==
    /\ ev.op = "setup" => (state = "SETUP" /\ players = << >> /\ table = <<>>)
    /\ (ev.op = "start" /\ ev.res = "ok") => table = <<>>

\* C14: in FINISHED every command but /durak leaves the session as it is, and
\* /durak takes it to SETUP
C14_FinishedStays ==
    [][state = "FINISHED" =>
           IF ev'.op = "setup" THEN state' = "SETUP"
           ELSE /\ ev'.op \in {"join", "start", "play", "defend", "take", "giveup"}
                /\ UNCHANGED <<state, players, deck, trump_card, trump_taken, table,
                               attacker, defender, finished_players>>]_vars

\* C14 witness: a /join sent to the finished session was ignored
C14_Witness ==
    /\ state = "FINISHED" /\ last_turn.durak \in DOMAIN players
    /\ ev.op = "join" /\ ev.res = "Ignored" /\ ev.who \notin DOMAIN players

\* C15: no start draws from an empty deck, however many players have joined
C15_NoEmptyDraw == ev.op = "start" => ev.res # "crash"

\* C16: a start either applies in full (PLAYING, six cards in every hand, the
\* attacker and the defender set) or leaves the session as it was, in SETUP
C16_StartAtomic ==
    [][ev'.op = "start" =>
           \/ /\ state' = "PLAYING"
              /\ \A a \in DOMAIN players' : Len(players'[a].hand) = 6
              /\ IsCurrent(attacker', players') /\ IsCurrent(defender', players')
           \/ /\ state' = state
              /\ UNCHANGED <<players, deck, trump_card, trump_taken, table, attacker,
                             defender, finished_players>>]_vars

\* C17: with the handlers interleaved at their awaits, a card is put on the
\* table only by the author who is the attacker of a game being played at that
\* moment, and an end_turn clears exactly the table it found when it was entered
C17_GuardsHold ==
    [][/\ Len(table') > Len(table) =>
              (state = "PLAYING" /\ attacker # NoPlayer /\ ev'.who = attacker.author)
       /\ \A p \in pending \ pending' : p.pc = "end_turn" => table = p.seen]_vars

\* what a command can change of the session
session == <<state, players, deck, trump_card, trump_taken, table, attacker,
             defender, finished_players>>

\* C18: /play and /giveup change the session only when the game is PLAYING and
\* their author is the attacker, /defend and /take only when the game is PLAYING
\* and their author is the defender
C18_OnlyInRole ==
    [][/\ (ev'.op \in {"play", "giveup"} /\ session' # session) =>
              (state = "PLAYING" /\ attacker # NoPlayer /\ ev'.who = attacker.author)
       /\ (ev'.op \in {"defend", "take"} /\ session' # session) =>
              (state = "PLAYING" /\ defender # NoPlayer /\ ev'.who = defender.author)]_vars

\* C18 witness: with an undefended card on the table, a /take sent by somebody
\* who holds cards but is not the defender was refused
C18_Witness ==
    /\ ev.op = "take" /\ ev.res = "NotYourTurn"
    /\ state = "PLAYING" /\ table # <<>> /\ ~AllDefended(table)
    /\ ev.who \in DOMAIN players /\ ev.who # defender.author

\* how many pairs up to the i-th are undefended
UndefendedUpTo(tbl, i) == Cardinality({k \in 1..i : tbl[k].d = NoCard})

\* C19: a defend is accepted only with as many cards as there are undefended
\* pairs; its j-th card lies on the j-th undefended pair in table order, the pairs
\* defended before are as they were, the cards have left the defender's hand, the
\* other hands are as they were, and every pair is defended
C19_DefendPositional ==
    [][(ev'.op = "defend" /\ ev'.res = "ok" /\ ~ev'.idle) =>
           LET who  == ev'.who
               objs == [j \in DOMAIN ev'.cards |-> from_string(ev'.cards[j])]
               used == {objs[j] : j \in DOMAIN objs}
           IN  /\ Len(objs) = UndefendedUpTo(table, Len(table))
               /\ Len(table') = Len(table)
               /\ \A i \in DOMAIN table :
                      /\ table'[i].a = table[i].a
                      /\ table'[i].d = IF table[i].d = NoCard
                                       THEN objs[UndefendedUpTo(table, i)]
                                       ELSE table[i].d
               /\ players'[who].hand =
                      SelectSeq(players[who].hand, LAMBDA c : c \notin used)
               /\ Len(players'[who].hand) = Len(players[who].hand) - Len(objs)
               /\ \A a \in DOMAIN players \ {who} : players'[a] = players[a]
               /\ AllDefended(table')]_vars

\* C19 witness: two undefended cards were beaten by one /defend with two cards
C19_Witness ==
    /\ ev.op = "defend" /\ ev.res = "ok" /\ Len(ev.cards) = 2
    /\ Len(table) >= 2 /\ AllDefended(table)
    /\ table[Len(table)].d = from_string(ev.cards[2])
    /\ table[Len(table) - 1].d = from_string(ev.cards[1])

\* the cards of a table in the order take appends them: pair by pair, the
\* attack card and then its defence card if it has one
RECURSIVE TakenFrom(_)
TakenFrom(tbl) ==
    IF tbl = <<>> THEN <<>>
    ELSE <<Head(tbl).a>> \o (IF Head(tbl).d = NoCard THEN <<>> ELSE <<Head(tbl).d>>)
         \o TakenFrom(Tail(tbl))

\* C20: a take goes through only on a table that is not empty and has an
\* undefended pair; when it has run to its end the defender's hand is the old
\* hand followed by every attack and defence card of the table (and by nothing
\* but cards the refill drew from the deck), the table is empty and the turn has
\* ended as taken
C20_TakeMovesTable ==
    [][(ev'.op = "take" /\ ~ev'.idle) =>
           LET who    == ev'.who
               gained == players[who].hand \o TakenFrom(table)
           IN  /\ table # <<>> /\ \E i \in DOMAIN table : table[i].d = NoCard
               /\ ev'.res = "ok" =>
                      /\ who \in DOMAIN players'
                      /\ Len(players'[who].hand) >= Len(gained)
                      /\ SubSeq(players'[who].hand, 1, Len(gained)) = gained
                      /\ \A k \in (Len(gained) + 1)..Len(players'[who].hand) :
                             \E n \in DOMAIN deck : deck[n] = players'[who].hand[k]
                      /\ table' = <<>>
                      /\ turns' = turns + 1
                      /\ last_turn'.turn_taken /\ last_turn'.old_defender = who]_vars

\* C20 witness: the defender beat one card, was attacked again and took: the
\* hand holds the five cards kept, then the beaten card, the card that beat it
\* and the second attack card
C20_Witness ==
    /\ TurnEnded /\ ev.op = "take" /\ last_turn.turn_taken
    /\ table = <<>>
    /\ ev.who \in DOMAIN players /\ Len(players[ev.who].hand) = 8
    /\ is_defence_success(trump_card, players[ev.who].hand[6], players[ev.who].hand[7])

\* C21: a giveup goes through only on a table that is not empty and whose pairs
\* are all defended; a giveup that is turned away leaves the table, the hands
\* and the roles as they were; one that has run to its end leaves the table
\* empty and has ended the turn as not taken
C21_GiveUpEndsTurn ==
    [][ev'.op = "giveup" =>
           IF ev'.idle
           THEN UNCHANGED <<table, players, attacker, defender>>
           ELSE /\ table # <<>> /\ \A i \in DOMAIN table : table[i].d # NoCard
                /\ ev'.res = "ok" =>
                       /\ table' = <<>>
                       /\ turns' = turns + 1
                       /\ ~last_turn'.turn_taken
                       /\ last_turn'.old_defender = defender.author]_vars

\* C21 witness: the attacker gave up after the defender had beaten the attack,
\* and the defender of that turn attacks now
C21_Witness ==
    /\ TurnEnded /\ ev.op = "giveup" /\ ~last_turn.turn_taken
    /\ table = <<>> /\ state = "PLAYING"
    /\ attacker.author = last_turn.old_defender

\* C22: a play that succeeds takes the submitted cards, and nothing else, out of
\* the attacker's hand (the cards kept stay in their order) and appends them in
\* the submitted order as undefended pairs after the pairs already on the
\* table; the deck, the other hands, the attacker and the defender stay
C22_PlayFrame ==
    [][(ev'.op = "play" /\ ev'.res = "ok") =>
           LET who       == ev'.who
               submitted == [j \in DOMAIN ev'.cards |-> from_string(ev'.cards[j])]
               played    == {submitted[j] : j \in DOMAIN submitted}
               hand      == players[who].hand
           IN  /\ ev'.cards # <<>>
               /\ Cardinality(played) = Len(submitted)
               /\ DOMAIN players' = DOMAIN players
               /\ players'[who].hand = SelectSeq(hand, LAMBDA c : c \notin played)
               /\ Len(players'[who].hand) = Len(hand) - Len(submitted)
               /\ table' = table \o [j \in DOMAIN submitted |->
                                         [a |-> submitted[j], d |-> NoCard]]
               /\ \A a \in DOMAIN players \ {who} : players'[a] = players[a]
               /\ UNCHANGED <<deck, attacker, defender, state>>]_vars

\* C22 witness: a card was played onto a table that held two defended pairs,
\* and lies after them as an undefended pair
C22_Witness ==
    /\ ev.op = "play" /\ ev.res = "ok" /\ Len(ev.cards) = 1
    /\ Len(table) = 3 /\ table[1].d # NoCard /\ table[2].d # NoCard
    /\ table[3] = [a |-> from_string(ev.cards[1]), d |-> NoCard]

\* C23: the deck a start builds (found, once the start has dealt, in the deck
\* and the hands) holds each of the 36 combinations of the nine ranks 6, 7, 8,
\* 9, 10, J, Q, K, A with the four suits exactly once
C23_FullDeck ==
    [][(ev'.op = "start" /\ state = "SETUP" /\ state' = "PLAYING") =>
           LET built == deck' \o HandsOf(players', players_by_number(players'))
           IN  /\ Len(built) = 36
               /\ \A c \in CanonicalDeck :
                      Cardinality({k \in DOMAIN built : built[k] = c}) = 1]_vars

\* C24: the trump card a start sets is the bottom card of the deck it shuffled;
\* while the session is PLAYING no step changes the suit of the trump card,
\* not the refill that draws the card nor end_turn's bookkeeping; and every
\* defence card a defend places beats its attack card under that suit
C24_TrumpSuitKept ==
    [][/\ (ev'.op = "start" /\ state = "SETUP" /\ state' = "PLAYING" /\ deck' # <<>>)
           => trump_card'.suit = deck'[Len(deck')].suit
       /\ (state = "PLAYING" /\ state' = "PLAYING")
           => trump_card'.suit = trump_card.suit
       /\ (ev'.op = "defend" /\ state = "PLAYING")
           => \A i \in DOMAIN table :
                  (table[i].d = NoCard /\ table'[i].d # NoCard) =>
                      LET a == table'[i].a
                          d == table'[i].d
                      IN  \/ d.suit = trump_card.suit /\ a.suit # trump_card.suit
                          \/ d.suit = a.suit /\ RankPos(d.rank) > RankPos(a.rank)]_vars

\* C24 witness: with the trump card drawn into a hand and the bookkeeping of
\* an end_turn done, a card was beaten by a lower card of the trump suit
C24_Witness ==
    /\ state = "PLAYING" /\ trump_taken /\ deck = <<>>
    /\ \E a \in DOMAIN players : Has(players[a].hand, trump_card)
    /\ ev.op = "defend" /\ ev.res = "ok" /\ ev.cards # <<>>
    /\ \E i \in DOMAIN table :
           /\ table[i].d = from_string(ev.cards[1])
           /\ table[i].d.suit = trump_card.suit /\ table[i].a.suit # trump_card.suit

\* C25: whenever the deck of a session that is PLAYING holds a card, its last
\* card, and no other, is the trump card; the end_turn that empties the deck
\* draws the trump card as the last card of a hand and marks it taken
C25_TrumpDrawnLast ==
    [][/\ (state' = "PLAYING" /\ deck' # <<>>) =>
              /\ deck'[Len(deck')] = trump_card'
              /\ \A k \in 1..(Len(deck') - 1) : deck'[k] # trump_card'
       /\ (state = "PLAYING" /\ deck # <<>> /\ deck' = <<>>) =>
              /\ ev'.op \in {"take", "giveup"}
              /\ trump_taken'
              /\ \E a \in DOMAIN players' :
                     LET hand == players'[a].hand
                     IN  /\ hand[Len(hand)] = trump_card'
                         /\ ~Has(players[a].hand, trump_card)]_vars

\* C25 witness: a refill drew the card above the trump card and left the trump
\* card alone in the deck, and the next refill drew it
C25_Witness ==
    /\ TurnEnded /\ state = "PLAYING" /\ turns = MaxTurns
    /\ deck = <<>> /\ trump_taken
    /\ \E a \in DOMAIN players :
           /\ Len(players[a].hand) = 6
           /\ players[a].hand[6] = trump_card
           /\ \E b \in DOMAIN players \ {a} :
                  Len(players[b].hand) >= 6 /\ players[b].hand[6] = create_deck[31]

\* the numbers of the players of a dict
Numbers(ps) == {ps[a].number : a \in DOMAIN ps}

\* C26: a join in SETUP by an author who has not joined adds a player whose
\* number is the count of the players plus one and leaves the others as they
\* were; any other join leaves the players unchanged; so in SETUP the numbers
\* are exactly 1..N, and no two players ever share a number
C26_JoinNumbers ==
    [][/\ ev'.op = "join" =>
              IF state = "SETUP" /\ ev'.who \notin DOMAIN players
              THEN /\ DOMAIN players' = DOMAIN players \cup {ev'.who}
                   /\ players'[ev'.who].number = Cardinality(DOMAIN players) + 1
                   /\ \A a \in DOMAIN players : players'[a] = players[a]
              ELSE players' = players
       /\ state' = "SETUP" => Numbers(players') = 1..Cardinality(DOMAIN players')
       /\ Cardinality(Numbers(players')) = Cardinality(DOMAIN players')]_vars

\* C26 witness: in the set-up after a finished game a second author joined and
\* got the number 2
C26_Witness ==
    /\ ev.op = "join" /\ ev.res = "ok" /\ state = "SETUP" /\ epoch >= 1
    /\ Cardinality(DOMAIN players) = 2 /\ players[ev.who].number = 2

\* C27: a start in a state other than SETUP or with fewer than two players
\* leaves the session unchanged; a start in SETUP with two or more players,
\* none of whose roles and channels the platform refuses, leaves the session
\* PLAYING with exactly six cards in every hand
C27_StartOutcome ==
    [][(ev'.op = "start" /\ ev'.res # "ProvisioningFailed") =>
           IF state # "SETUP" \/ Cardinality(DOMAIN players) < 2
           THEN UNCHANGED <<state, players, deck, trump_card, trump_taken, table,
                            attacker, defender, finished_players>>
           ELSE /\ state' = "PLAYING"
                /\ DOMAIN players' = DOMAIN players
                /\ \A a \in DOMAIN players' : Len(players'[a].hand) = 6]_vars

\* C28: for every player an elimination removes, the deletion of the player's
\* channel and the deletion of the player's role are each invoked exactly
\* once, whichever platform call of the elimination raises
C28_ReleasedOnce ==
    (call.fn = "eliminate" /\ call.done) =>
        \A a \in call.out.emptied :
            /\ a \notin DOMAIN call.out.players
            /\ call.out.calls[a].channel_delete = 1
            /\ call.out.calls[a].role_delete = 1

C30_Transitive ==
    (call.fn = "defence_chain" /\ call.done) =>
        ((call.out.yx /\ call.out.zy) => call.out.zx)

\* C30 witness: a card was beaten by a higher card of its suit, that one by a
\* trump, and the trump beats the first card too
C30_Witness ==
    /\ call.fn = "defence_chain" /\ call.done
    /\ call.out.yx /\ call.out.zy /\ call.out.zx
    /\ call.x.suit # call.trump.suit /\ call.y.suit = call.x.suit
    /\ call.z.suit = call.trump.suit

\* C30 as it is stated, for the cards and trump suits of the chains: there are
\* cards x, y, z and a trump suit under which y beats x and z beats y but z
\* does not beat x
C30_NotTransitive ==
    call.fn = "defence_chain" =>
        \E t \in TrumpCards, x \in AllCards, y \in AllCards, z \in AllCards :
            /\ is_defence_success(t, x, y)
            /\ is_defence_success(t, y, z)
            /\ ~is_defence_success(t, x, z)

\* a /play of one card by a player of the game would put the card on the table
CanPlay ==
    \E a \in DOMAIN players : \E cards \in OneToken(a) :
        /\ TurnCheck(a, attacker) = "ok"
        /\ play(players[a].hand, cards).table # table

\* a /giveup by a player of the game would end the turn
CanGiveUp ==
    \E a \in DOMAIN players :
        /\ TurnCheck(a, attacker) = "ok"
        /\ GiveUpCheck(table) = "ok"
        /\ end_turn(players, FALSE).res = "ok"

\* a /defend by a player of the game would put cards on the table
CanDefend ==
    \E a \in DOMAIN players : \E cards \in TokenLists(a) :
        /\ TurnCheck(a, defender) = "ok"
        /\ defend(players[a].hand, cards).table # table

\* a /take by a player of the game would end the turn
CanTake ==
    \E a \in DOMAIN players :
        /\ TurnCheck(a, defender) = "ok"
        /\ table # <<>> /\ ~AllDefended(table)
        /\ end_turn([players EXCEPT ![a].hand = @ \o TableCards(table)], TRUE).res = "ok"

\* C31: in every state in which the game is being played, some command of a
\* player still in the game changes the state: the attacker can play a card or
\* give up, or the defender can defend or take
C31_NoDeadlock ==
    state = "PLAYING" => (CanPlay \/ CanGiveUp \/ CanDefend \/ CanTake)

\* C32: when a turn has ended and the game is still being played, at least two
\* players are still in the game; a turn that leaves fewer than two players
\* with cards finishes the game
C32_TwoPlayersWhilePlaying ==
    (TurnEnded /\ state = "PLAYING") => Cardinality(DOMAIN players) >= 2

\* C33: no card is in two places at once: the deck, the hands and the table
\* cards together name no card twice
C33_NoCardTwice ==
    \A i, j \in DOMAIN CardsInPlay : CardsInPlay[i] = CardsInPlay[j] => i = j

\* C34: of the /take commands of one turn, one at most is inside end_turn at a
\* time, and the table's cards reach the defender's hand once: no hand holds a
\* card twice
C34_TakeOnce ==
    /\ Cardinality({p \in pending : p.pc = "end_turn" /\ p.op = "take"}) <= 1
    /\ \A a \in DOMAIN players : \A i, j \in DOMAIN players[a].hand :
            players[a].hand[i] = players[a].hand[j] => i = j

\* C35: when a start has completed, nothing of an earlier game of the session
\* is left: finished_players is empty and trump_taken is false
C35_StartIsFresh ==
    (ev.op = "start" /\ ev.res = "ok") => (finished_players = {} /\ ~trump_taken)

\* C36: every defended pair on the table satisfies the defence relation: the
\* defending card beats the attacking card under the session's trump card
C36_DefendedPairsValid ==
    \A i \in DOMAIN table :
        table[i].d # NoCard => is_defence_success(trump_card, table[i].a, table[i].d)

\* C37: after an end_turn that does not finish the game, the deck is empty or
\* every player still in the game holds at least six cards
C37_RefilledToSix ==
    (TurnEnded /\ state = "PLAYING") =>
        (deck = <<>> \/ \A a \in DOMAIN players : Len(players[a].hand) >= 6)

\* a turn has ended with cards left in the deck after a player drew, the game
\* goes on
C37_Witness ==
    /\ TurnEnded /\ state = "PLAYING"
    /\ deck # <<>> /\ Len(deck) < Len(create_deck) - 6 * Cardinality(DOMAIN players)
    /\ \A a \in DOMAIN players : Len(players[a].hand) >= 6

\* C38: in main.py, after an end_turn the defence check still takes the suit
\* fixed at the deal as the trump suit: every card of that suit beats every
\* attack card of another suit
C38_MainTrumpSuitKept ==
    (call.fn = "main" /\ TurnEnded) =>
        \A a, d \in AllCards :
            (a.suit # call.trump.suit /\ d.suit = call.trump.suit) =>
                main_is_defence_success(trump_card, a, d)

\* C39: in the reaction-based variant, after a defend that the defender
\* confirmed and that was applied, every pair on the table is defended
C39_ConfirmCoversAll ==
    (ev.op = "confirm_defend" /\ ev.res = "ok") => AllDefended(table)

====
